---- MODULE Spec2Model ----
(***************************************************************************)
(* A model of the chess engine of browser-chess-pure-js: the board         *)
(* encoding (Board.js), the move records (Move.js), the rules engine       *)
(* (Rules.js), the game state and its transitions (GameState.js) and the   *)
(* orchestrating Game (Game.js).                                           *)
(*                                                                         *)
(* Conventions.  A JS string that the code indexes or builds character by  *)
(* character (a square "e4", a notation entry "Nxe4+") is a sequence of    *)
(* one-character strings; a piece code ("wP") and a repetition key are     *)
(* strings.  JS null is `null` for a piece or a promotion, NoSquare for a  *)
(* square.  Arrays indexed from 0 in the code are functions on 0..63.      *)
(* statusText and lastMoveText are presentation strings and are left out.  *)
(***************************************************************************)
EXTENDS Integers, Sequences, FiniteSets, TLC

null == "null"
NoSquare == <<>>

(***************************************************************************)
(* Board.js                                                                *)
(***************************************************************************)
FILES == <<"a", "b", "c", "d", "e", "f", "g", "h">>
Digits == <<"0", "1", "2", "3", "4", "5", "6", "7", "8", "9">>

\* The two characters of a piece code: piece[0] and piece[1] of the code.
PieceChars ==
  [wP |-> <<"w", "P">>, wN |-> <<"w", "N">>, wB |-> <<"w", "B">>,
   wR |-> <<"w", "R">>, wQ |-> <<"w", "Q">>, wK |-> <<"w", "K">>,
   bP |-> <<"b", "P">>, bN |-> <<"b", "N">>, bB |-> <<"b", "B">>,
   bR |-> <<"b", "R">>, bQ |-> <<"b", "Q">>, bK |-> <<"b", "K">>]

CharAt(piece, i) == PieceChars[piece][i + 1]

frToIndex(file, rank) == rank * 8 + file

indexToFR(index) == [file |-> index % 8, rank |-> index \div 8]

\* `${FILES[file]}${rank + 1}`
indexToAlgebraic(index) ==
  <<FILES[indexToFR(index).file + 1], Digits[indexToFR(index).rank + 2]>>

\* FILES.indexOf(fileChar)
FilesIndexOf(c) ==
  CASE c = "a" -> 0 [] c = "b" -> 1 [] c = "c" -> 2 [] c = "d" -> 3
    [] c = "e" -> 4 [] c = "f" -> 5 [] c = "g" -> 6 [] c = "h" -> 7
    [] OTHER -> 0 - 1

\* Number(rankChar) for a digit character.
NumberOfDigit(c) ==
  CASE c = "0" -> 0 [] c = "1" -> 1 [] c = "2" -> 2 [] c = "3" -> 3
    [] c = "4" -> 4 [] c = "5" -> 5 [] c = "6" -> 6 [] c = "7" -> 7
    [] c = "8" -> 8 [] c = "9" -> 9

\* The index of a well-formed coordinate (the path that does not throw).
algebraicToIndex(sq) ==
  frToIndex(FilesIndexOf(sq[1]), NumberOfDigit(sq[2]) - 1)

\* A JavaScript number: an integer n, or NaN.
Num(n) == [nan |-> FALSE, n |-> n]

NaN == [nan |-> TRUE, n |-> 0]

\* Number(c) for a string of one character: the digit's value, 0 for white
\* space, NaN for any other character.
NumberOfChar(c) ==
  IF \E k \in 1..Len(Digits) : Digits[k] = c THEN Num(NumberOfDigit(c))
  ELSE IF c = " " THEN Num(0)
  ELSE NaN

\* x - k, x * k + j, x < k and x > k for a number x and integers k, j:
\* arithmetic on NaN gives NaN, and every comparison with NaN is false.
NumMinus(x, k) == IF x.nan THEN NaN ELSE Num(x.n - k)

NumTimesPlus(x, k, j) == IF x.nan THEN NaN ELSE Num(x.n * k + j)

NumLess(x, k) == ~x.nan /\ x.n < k

NumGreater(x, k) == ~x.nan /\ x.n > k

\* An argument passed for a square: a string, given by its characters, or
\* a value of another type.
StringOf(chars) == [type |-> "string", chars |-> chars]

NotAString(type) == [type |-> type, chars |-> <<>>]

\* What a call of algebraicToIndex ends with: the Error thrown, or the
\* number returned.
InvalidSquare == [threw |-> TRUE, value |-> NaN]

IndexReturned(value) == [threw |-> FALSE, value |-> value]

\* algebraicToIndex(sq) for any argument: `!sq` holds for null, undefined
\* and the empty string.
algebraicToIndexOfAny(sq) ==
  IF sq.type # "string" \/ Len(sq.chars) = 0 \/ Len(sq.chars) # 2
  THEN InvalidSquare
  ELSE LET file == FilesIndexOf(sq.chars[1])
           rank == NumMinus(NumberOfChar(sq.chars[2]), 1)
       IN IF file < 0 \/ NumLess(rank, 0) \/ NumGreater(rank, 7)
          THEN InvalidSquare
          ELSE IndexReturned(NumTimesPlus(rank, 8, file))

\* indexToAlgebraic(index) for any number returned by algebraicToIndex:
\* FILES[NaN] is undefined and NaN + 1 is NaN.
indexToAlgebraicOfAny(index) ==
  IF index.nan THEN <<"undefined", "NaN">> ELSE indexToAlgebraic(index.n)

getColorOf(piece) ==
  IF piece = null THEN null
  ELSE IF CharAt(piece, 0) = "w" THEN "white" ELSE "black"

oppositeColor(color) == IF color = "white" THEN "black" ELSE "white"

createStartingBoard ==
  LET place == [a1 |-> "wR", h1 |-> "wR", b1 |-> "wN", g1 |-> "wN",
                c1 |-> "wB", f1 |-> "wB", d1 |-> "wQ", e1 |-> "wK",
                a8 |-> "bR", h8 |-> "bR", b8 |-> "bN", g8 |-> "bN",
                c8 |-> "bB", f8 |-> "bB", d8 |-> "bQ", e8 |-> "bK"]
  IN [i \in 0..63 |->
        LET sq == indexToAlgebraic(i)
            name == sq[1] \o sq[2]
        IN IF sq[2] = "2" THEN "wP"
           ELSE IF sq[2] = "7" THEN "bP"
           ELSE IF name \in DOMAIN place THEN place[name]
           ELSE null]

(***************************************************************************)
(* Move.js                                                                 *)
(***************************************************************************)
createMove(from, to, piece, captured) ==
  [from |-> from, to |-> to, piece |-> piece, captured |-> captured,
   promotion |-> null, isEnPassant |-> FALSE,
   isCastleKingSide |-> FALSE, isCastleQueenSide |-> FALSE]

createPromotionMove(from, to, piece, promotion, captured) ==
  [from |-> from, to |-> to, piece |-> piece, captured |-> captured,
   promotion |-> promotion, isEnPassant |-> FALSE,
   isCastleKingSide |-> FALSE, isCastleQueenSide |-> FALSE]

createEnPassantMove(from, to, piece, captured) ==
  [from |-> from, to |-> to, piece |-> piece, captured |-> captured,
   promotion |-> null, isEnPassant |-> TRUE,
   isCastleKingSide |-> FALSE, isCastleQueenSide |-> FALSE]

createCastleMove(from, to, piece, kingSide) ==
  [from |-> from, to |-> to, piece |-> piece, captured |-> null,
   promotion |-> null, isEnPassant |-> FALSE,
   isCastleKingSide |-> kingSide, isCastleQueenSide |-> ~kingSide]

(***************************************************************************)
(* Rules.js                                                                *)
(***************************************************************************)
\* The sequences ss[lo], ..., ss[hi] joined in order.
RECURSIVE FlattenRange(_, _, _)
FlattenRange(ss, lo, hi) ==
  IF lo > hi THEN <<>>
  ELSE IF lo = hi THEN ss[lo]
  ELSE FlattenRange(ss, lo, (lo + hi) \div 2)
         \o FlattenRange(ss, ((lo + hi) \div 2) + 1, hi)

FlattenSeq(ss) == FlattenRange(ss, 1, Len(ss))

OnBoard(f, r) == f >= 0 /\ f <= 7 /\ r >= 0 /\ r <= 7

Abs(n) == IF n < 0 THEN 0 - n ELSE n

Sign(n) == IF n > 0 THEN 1 ELSE 0 - 1

\* The first index i..63 holding `code`, or 64 when there is none.
\* The first index from i on that holds code, 64 when none does.
FirstIndexOf(board, code, i) ==
  IF \E j \in i..63 : board[j] = code
  THEN CHOOSE j \in i..63 :
         board[j] = code /\ \A k \in i..(j - 1) : board[k] # code
  ELSE 64

findKingSquare(board, color) ==
  LET kingCode == IF color = "white" THEN "wK" ELSE "bK"
      i == FirstIndexOf(board, kingCode, 0)
  IN IF i <= 63 THEN indexToAlgebraic(i) ELSE NoSquare

\* A walk that takes every square on the way for empty.
RayThroughPieces(board, file, rank, stepF, stepR, dist) == TRUE

\* Whether the squares strictly between (file, rank) and the square dist
\* steps away in direction (stepF, stepR) are all empty: the walk of the
\* attack test from the slider towards its target.
RayClear(board, file, rank, stepF, stepR, dist) ==
  \A k \in 1..(dist - 1) :
    board[(rank + k * stepR) * 8 + (file + k * stepF)] = null

\* The B/R/Q case: the step towards the target, (0, 0) when the target is
\* not on a line the piece moves along.
SliderAttacks(board, type, file, rank, df, dr) ==
  LET diag == (type = "B" \/ type = "Q") /\ Abs(df) = Abs(dr) /\ Abs(df) > 0
      vert == (type = "R" \/ type = "Q") /\ df = 0 /\ Abs(dr) > 0
      horiz == (type = "R" \/ type = "Q") /\ ~(df = 0 /\ Abs(dr) > 0)
                 /\ dr = 0 /\ Abs(df) > 0
  IN IF vert THEN RayClear(board, file, rank, 0, Sign(dr), Abs(dr))
     ELSE IF horiz THEN RayClear(board, file, rank, Sign(df), 0, Abs(df))
     ELSE IF diag
     THEN RayClear(board, file, rank, Sign(df), Sign(dr), Abs(df))
     ELSE FALSE

\* Whether a piece of the given type and colour on (file, rank) attacks the
\* target (tf, tr).
PieceAttacks(board, type, file, rank, tf, tr, attackerColor) ==
  CASE type = "P" ->
         rank + (IF attackerColor = "white" THEN 1 ELSE 0 - 1) = tr
           /\ Abs(file - tf) = 1
    [] type = "N" ->
         \/ Abs(file - tf) = 1 /\ Abs(rank - tr) = 2
         \/ Abs(file - tf) = 2 /\ Abs(rank - tr) = 1
    [] type = "K" ->
         (IF Abs(file - tf) > Abs(rank - tr)
          THEN Abs(file - tf) ELSE Abs(rank - tr)) = 1
    [] OTHER -> SliderAttacks(board, type, file, rank, tf - file, tr - rank)

AttackedAt(board, tf, tr, attackerColor) ==
  \E i \in 0..63 :
     /\ board[i] # null
     /\ getColorOf(board[i]) = attackerColor
     /\ PieceAttacks(board, CharAt(board[i], 1), i % 8, i \div 8, tf, tr,
                     attackerColor)

squareAttackedBy(state, targetSq, attackerColor) ==
  AttackedAt(state.board, indexToFR(algebraicToIndex(targetSq)).file,
             indexToFR(algebraicToIndex(targetSq)).rank, attackerColor)

\* The squares a slider reaches from (file, rank) in direction (df, dr).
RECURSIVE SlideRay(_, _, _, _, _, _, _)
SlideRay(board, fromIndex, fromSq, color, file, rank, d) ==
  LET f == file + d[1]
      r == rank + d[2]
  IN IF ~OnBoard(f, r) THEN <<>>
     ELSE LET toIndex == r * 8 + f
              target == board[toIndex]
          IN IF target = null
             THEN <<createMove(fromSq, indexToAlgebraic(toIndex),
                               board[fromIndex], null)>>
                  \o SlideRay(board, fromIndex, fromSq, color, f, r, d)
             ELSE IF getColorOf(target) # color
             THEN <<createMove(fromSq, indexToAlgebraic(toIndex),
                               board[fromIndex], target)>>
             ELSE <<>>

generateSlidingMoves(board, fromIndex, fromSq, color, dirs) ==
  FlattenSeq([k \in 1..Len(dirs) |->
    SlideRay(board, fromIndex, fromSq, color,
             indexToFR(fromIndex).file, indexToFR(fromIndex).rank, dirs[k])])

BishopDirs == <<<<1, 1>>, <<1, -1>>, <<-1, 1>>, <<-1, -1>>>>
RookDirs == <<<<1, 0>>, <<-1, 0>>, <<0, 1>>, <<0, -1>>>>
QueenDirs == RookDirs \o BishopDirs

\* The moves of one step to (file + o[1], rank + o[2]) for each offset o.
StepMoves(board, fromIndex, fromSq, color, offsets) ==
  LET file == indexToFR(fromIndex).file
      rank == indexToFR(fromIndex).rank
  IN FlattenSeq([k \in 1..Len(offsets) |->
       LET nf == file + offsets[k][1]
           nr == rank + offsets[k][2]
       IN IF ~OnBoard(nf, nr) THEN <<>>
          ELSE LET target == board[nr * 8 + nf]
               IN IF target = null \/ getColorOf(target) # color
                  THEN <<createMove(fromSq, indexToAlgebraic(nr * 8 + nf),
                                    board[fromIndex], target)>>
                  ELSE <<>>])

KnightJumps == <<<<1, 2>>, <<2, 1>>, <<2, -1>>, <<1, -2>>,
                 <<-1, -2>>, <<-2, -1>>, <<-2, 1>>, <<-1, 2>>>>

generateKnightMoves(board, fromIndex, fromSq, color) ==
  StepMoves(board, fromIndex, fromSq, color, KnightJumps)

\* df from -1 to 1 in the outer loop, dr in the inner one, (0, 0) skipped.
KingSteps == <<<<-1, -1>>, <<-1, 0>>, <<-1, 1>>, <<0, -1>>,
               <<0, 1>>, <<1, -1>>, <<1, 0>>, <<1, 1>>>>

generateKingMoves(board, fromIndex, fromSq, color) ==
  StepMoves(board, fromIndex, fromSq, color, KingSteps)

PromotionPieces == <<"Q", "R", "B", "N">>

\* A pawn advance that never promotes.
addPawnAdvanceUnpromoted(fromSq, fromIndex, toIndex, color, promotionRank) ==
  <<createMove(fromSq, indexToAlgebraic(toIndex),
               IF color = "white" THEN "wP" ELSE "bP", null)>>

addPawnAdvance(fromSq, fromIndex, toIndex, color, promotionRank) ==
  LET piece == IF color = "white" THEN "wP" ELSE "bP"
      toSq == indexToAlgebraic(toIndex)
  IN IF indexToFR(fromIndex).rank = promotionRank
     THEN [k \in 1..4 |->
             createPromotionMove(fromSq, toSq, piece, PromotionPieces[k], null)]
     ELSE <<createMove(fromSq, toSq, piece, null)>>

addPawnCapture(fromSq, fromIndex, toIndex, color, capturedPiece, promotionRank) ==
  LET piece == IF color = "white" THEN "wP" ELSE "bP"
      toSq == indexToAlgebraic(toIndex)
  IN IF indexToFR(fromIndex).rank = promotionRank
     THEN [k \in 1..4 |->
             createPromotionMove(fromSq, toSq, piece, PromotionPieces[k],
                                 capturedPiece)]
     ELSE <<createMove(fromSq, toSq, piece, capturedPiece)>>

\* epIndex is the index of state.enPassantTarget, or -1 when it is null.
generatePawnMoves(state, fromIndex, fromSq, file, rank, color, enemy, epIndex) ==
  LET board == state.board
      dir == IF color = "white" THEN 1 ELSE 0 - 1
      startRank == IF color = "white" THEN 1 ELSE 6
      promotionRank == IF color = "white" THEN 6 ELSE 1
      oneStepRank == rank + dir
      oneStepIndex == oneStepRank * 8 + file
      twoStepIndex == (rank + 2 * dir) * 8 + file
      advances ==
        IF oneStepRank >= 0 /\ oneStepRank <= 7 /\ board[oneStepIndex] = null
        THEN addPawnAdvance(fromSq, fromIndex, oneStepIndex, color, promotionRank)
             \o (IF rank = startRank /\ board[twoStepIndex] = null
                 THEN <<createMove(fromSq, indexToAlgebraic(twoStepIndex),
                                   board[fromIndex], null)>>
                 ELSE <<>>)
        ELSE <<>>
      CapturesOn(cf) ==
        IF cf < 0 \/ cf > 7 \/ rank + dir < 0 \/ rank + dir > 7 THEN <<>>
        ELSE LET targetIndex == (rank + dir) * 8 + cf
                 targetPiece == board[targetIndex]
                 captured == board[rank * 8 + cf]
             IN (IF targetPiece # null /\ getColorOf(targetPiece) = enemy
                 THEN addPawnCapture(fromSq, fromIndex, targetIndex, color,
                                     targetPiece, promotionRank)
                 ELSE <<>>)
                \o
                (IF epIndex = targetIndex /\ targetPiece = null
                    /\ captured # null /\ getColorOf(captured) = enemy
                 THEN <<createEnPassantMove(fromSq, indexToAlgebraic(targetIndex),
                                            board[fromIndex], captured)>>
                 ELSE <<>>)
  IN advances \o CapturesOn(file - 1) \o CapturesOn(file + 1)

\* A castling generator that does not look at the square the king crosses.
generateCastlingMovesUncrossed(state, kingIndex, kingSq, color, castlingRights) ==
  LET board == state.board
      rights == castlingRights[color]
      rank == IF color = "white" THEN 0 ELSE 7
      enemy == oppositeColor(color)
      fIndex == rank * 8 + 5
      gIndex == rank * 8 + 6
      dIndex == rank * 8 + 3
      cIndex == rank * 8 + 2
      bIndex == rank * 8 + 1
  IN IF kingIndex # rank * 8 + 4 THEN <<>>
     ELSE IF squareAttackedBy(state, kingSq, enemy) THEN <<>>
     ELSE (IF /\ rights.kingSide
              /\ board[fIndex] = null /\ board[gIndex] = null
              /\ ~squareAttackedBy(state, indexToAlgebraic(gIndex), enemy)
           THEN <<createCastleMove(kingSq, indexToAlgebraic(gIndex),
                                   board[kingIndex], TRUE)>>
           ELSE <<>>)
          \o
          (IF /\ rights.queenSide
              /\ board[dIndex] = null /\ board[cIndex] = null
              /\ board[bIndex] = null
              /\ ~squareAttackedBy(state, indexToAlgebraic(cIndex), enemy)
           THEN <<createCastleMove(kingSq, indexToAlgebraic(cIndex),
                                   board[kingIndex], FALSE)>>
           ELSE <<>>)

generateCastlingMoves(state, kingIndex, kingSq, color, castlingRights) ==
  LET board == state.board
      rights == castlingRights[color]
      rank == IF color = "white" THEN 0 ELSE 7
      enemy == oppositeColor(color)
      fIndex == rank * 8 + 5
      gIndex == rank * 8 + 6
      dIndex == rank * 8 + 3
      cIndex == rank * 8 + 2
      bIndex == rank * 8 + 1
  IN IF kingIndex # rank * 8 + 4 THEN <<>>
     ELSE IF squareAttackedBy(state, kingSq, enemy) THEN <<>>
     ELSE (IF /\ rights.kingSide
              /\ board[fIndex] = null /\ board[gIndex] = null
              /\ ~squareAttackedBy(state, indexToAlgebraic(fIndex), enemy)
              /\ ~squareAttackedBy(state, indexToAlgebraic(gIndex), enemy)
           THEN <<createCastleMove(kingSq, indexToAlgebraic(gIndex),
                                   board[kingIndex], TRUE)>>
           ELSE <<>>)
          \o
          (IF /\ rights.queenSide
              /\ board[dIndex] = null /\ board[cIndex] = null
              /\ board[bIndex] = null
              /\ ~squareAttackedBy(state, indexToAlgebraic(dIndex), enemy)
              /\ ~squareAttackedBy(state, indexToAlgebraic(cIndex), enemy)
           THEN <<createCastleMove(kingSq, indexToAlgebraic(cIndex),
                                   board[kingIndex], FALSE)>>
           ELSE <<>>)

\* The pseudo-legal moves of the piece on fromIndex (none for an empty
\* square or a piece of the side not to move).
PieceMoves(state, fromIndex) ==
  LET board == state.board
      piece == board[fromIndex]
      color == getColorOf(piece)
      enemy == oppositeColor(state.activeColor)
      fromSq == indexToAlgebraic(fromIndex)
      type == CharAt(piece, 1)
      epIndex == IF state.enPassantTarget # NoSquare
                 THEN algebraicToIndex(state.enPassantTarget) ELSE 0 - 1
  IN IF piece = null \/ color # state.activeColor THEN <<>>
     ELSE CASE type = "P" ->
                 generatePawnMoves(state, fromIndex, fromSq,
                                   indexToFR(fromIndex).file,
                                   indexToFR(fromIndex).rank,
                                   color, enemy, epIndex)
            [] type = "N" -> generateKnightMoves(board, fromIndex, fromSq, color)
            [] type = "B" ->
                 generateSlidingMoves(board, fromIndex, fromSq, color, BishopDirs)
            [] type = "R" ->
                 generateSlidingMoves(board, fromIndex, fromSq, color, RookDirs)
            [] type = "Q" ->
                 generateSlidingMoves(board, fromIndex, fromSq, color, QueenDirs)
            [] type = "K" ->
                 generateKingMoves(board, fromIndex, fromSq, color)
                 \o generateCastlingMoves(state, fromIndex, fromSq, color,
                                          state.castlingRights)

generatePseudoLegalMoves(state) ==
  FlattenSeq([k \in 1..64 |-> PieceMoves(state, k - 1)])

\* The scratch copy of the legality filter after its en passant step.
ScratchEnPassant(board, move, toIndex) ==
  IF move.isEnPassant
  THEN [board EXCEPT
          ![(indexToFR(toIndex).rank
               + (IF getColorOf(move.piece) = "white" THEN 0 - 1 ELSE 1)) * 8
            + indexToFR(toIndex).file] = null]
  ELSE board

\* ... after the destination is set.
ScratchPlace(board, move, toIndex) ==
  IF move.promotion # null
  THEN [board EXCEPT ![toIndex] =
          (IF getColorOf(move.piece) = "white" THEN "w" ELSE "b")
            \o move.promotion]
  ELSE [board EXCEPT ![toIndex] = move.piece]

\* ... after the rook of a castle move is relocated on rank `rank`.
ScratchCastle(board, move, rank) ==
  IF move.isCastleKingSide
  THEN [board EXCEPT ![rank * 8 + 5] = board[rank * 8 + 7],
                     ![rank * 8 + 7] = null]
  ELSE IF move.isCastleQueenSide
  THEN [board EXCEPT ![rank * 8 + 3] = board[rank * 8 + 0],
                     ![rank * 8 + 0] = null]
  ELSE board

\* The board of the scratch copy after the minimal application of `move`.
ScratchBoard(board, move) ==
  ScratchCastle(
    ScratchPlace(
      ScratchEnPassant([board EXCEPT ![algebraicToIndex(move.from)] = null],
                       move, algebraicToIndex(move.to)),
      move, algebraicToIndex(move.to)),
    move, IF getColorOf(move.piece) = "white" THEN 0 ELSE 7)

\* Whether the king on kingSq (NoSquare: no king found) is attacked.
KingAttacked(state, kingSq, enemy) ==
  IF kingSq = NoSquare THEN TRUE ELSE squareAttackedBy(state, kingSq, enemy)

ScratchVerdict(state, cloneBoard) ==
  KingAttacked([board |-> cloneBoard,
                activeColor |-> oppositeColor(state.activeColor),
                castlingRights |-> state.castlingRights,
                enPassantTarget |-> state.enPassantTarget],
               findKingSquare(cloneBoard, state.activeColor),
               oppositeColor(state.activeColor))

\* A filter that tests the king on the board as it is before the move.
leavesKingInCheckUnmoved(state, move) == ScratchVerdict(state, state.board)

\* A filter that rejects nothing.
leavesKingInCheckNever(state, move) == FALSE

leavesKingInCheck(state, move) ==
  ScratchVerdict(state, ScratchBoard(state.board, move))

generateLegalMoves(state) ==
  SelectSeq(generatePseudoLegalMoves(state),
            LAMBDA move : ~leavesKingInCheck(state, move))

KingInCheck(state, kingSquare) ==
  IF kingSquare = NoSquare THEN FALSE
  ELSE squareAttackedBy(state, kingSquare, oppositeColor(state.activeColor))

isInCheck(state) ==
  KingInCheck(state, findKingSquare(state.board, state.activeColor))

\* generateLegalMoves(state).length > 0: some pseudo-legal move survives
\* the filter.
SomeMoveSurvives(state, pseudoMoves) ==
  \E k \in 1..Len(pseudoMoves) : ~leavesKingInCheck(state, pseudoMoves[k])

HasLegalMoves(state) ==
  SomeMoveSurvives(state, generatePseudoLegalMoves(state))

analyzePosition(state) ==
  [hasLegalMoves |-> HasLegalMoves(state), isCheck |-> isInCheck(state)]

(***************************************************************************)
(* GameState.js.  A GameState object is a record gs; each method is an     *)
(* operator from the object before the call to the object after it.        *)
(***************************************************************************)
NullResult == [outcome |-> null, winner |-> null, reason |-> null]
NullLastMove == [from |-> NoSquare, to |-> NoSquare]

isGameOver(gs) == gs.result.outcome # null /\ gs.result.outcome # "ongoing"

asRulesState(gs) ==
  [board |-> gs.board, activeColor |-> gs.activeColor,
   castlingRights |-> gs.castlingRights, enPassantTarget |-> gs.enPassantTarget]

getPiece(gs, sq) == gs.board[algebraicToIndex(sq)]

\* board.join(","): a null entry joins as the empty string.
RECURSIVE JoinCells(_, _, _)
JoinCells(board, i, last) ==
  LET cell == IF board[i] = null THEN "" ELSE board[i]
  IN IF i = last THEN cell ELSE cell \o "," \o JoinCells(board, i + 1, last)

RECURSIVE JoinRanks(_, _)
JoinRanks(board, r) ==
  IF r = 7 THEN JoinCells(board, 56, 63)
  ELSE JoinCells(board, r * 8, r * 8 + 7) \o "," \o JoinRanks(board, r + 1)

\* A key that leaves the en passant target out.
buildRepetitionKeyWithoutEnPassant(gs) ==
  LET boardPart == JoinRanks(gs.board, 0)
      cr == gs.castlingRights
      crPart == (IF cr.white.kingSide THEN "K" ELSE "")
                \o (IF cr.white.queenSide THEN "Q" ELSE "")
                \o (IF cr.black.kingSide THEN "k" ELSE "")
                \o (IF cr.black.queenSide THEN "q" ELSE "")
  IN boardPart \o "|" \o gs.activeColor \o "|" \o crPart \o "|-"

buildRepetitionKey(gs) ==
  LET boardPart == JoinRanks(gs.board, 0)
      cr == gs.castlingRights
      crPart == (IF cr.white.kingSide THEN "K" ELSE "")
                \o (IF cr.white.queenSide THEN "Q" ELSE "")
                \o (IF cr.black.kingSide THEN "k" ELSE "")
                \o (IF cr.black.queenSide THEN "q" ELSE "")
      ep == IF gs.enPassantTarget # NoSquare
            THEN gs.enPassantTarget[1] \o gs.enPassantTarget[2] ELSE "-"
  IN boardPart \o "|" \o gs.activeColor \o "|" \o crPart \o "|" \o ep

\* repetitionMap is the Map's entries in insertion order: <<key, count>>.
MapGet(map, key) ==
  IF \E k \in 1..Len(map) : map[k][1] = key
  THEN map[CHOOSE k \in 1..Len(map) : map[k][1] = key][2]
  ELSE 0

MapSet(map, key, value) ==
  IF \E k \in 1..Len(map) : map[k][1] = key
  THEN [k \in 1..Len(map) |->
          IF map[k][1] = key THEN <<key, value>> ELSE map[k]]
  ELSE Append(map, <<key, value>>)

CountKey(gs, key) ==
  [gs EXCEPT !.repetitionMap = MapSet(@, key, MapGet(@, key) + 1)]

\* A record that notes a position as met once, however often it was met.
recordRepetitionKeyOnce(gs) ==
  [gs EXCEPT !.repetitionMap = MapSet(@, buildRepetitionKey(gs), 1)]

recordRepetitionKey(gs) == CountKey(gs, buildRepetitionKey(gs))

\* A repetition test that waits for a fourth occurrence.
hasFourfoldRepetition(gs) ==
  \E k \in 1..Len(gs.repetitionMap) : gs.repetitionMap[k][2] >= 4

hasThreefoldRepetition(gs) ==
  \E k \in 1..Len(gs.repetitionMap) : gs.repetitionMap[k][2] >= 3

isInsufficientMaterial(gs) ==
  LET pieces == SelectSeq([k \in 1..64 |-> gs.board[k - 1]],
                          LAMBDA p : p # null /\ CharAt(p, 1) # "K")
  IN \/ Len(pieces) = 0
     \/ Len(pieces) = 1
          /\ (CharAt(pieces[1], 1) = "B" \/ CharAt(pieces[1], 1) = "N")
     \/ Len(pieces) = 2
          /\ CharAt(pieces[1], 1) = "B" /\ CharAt(pieces[2], 1) = "B"

FiftyMoveLimit == 100

\* The fifty-move test of updateResult with a strict comparison.
FiftyMoveRuleLate(gs) == gs.halfmoveClock > FiftyMoveLimit

\* The fifty-move test of updateResult.
FiftyMoveRule(gs) == gs.halfmoveClock >= FiftyMoveLimit

Checkmate(winner) ==
  [outcome |-> "checkmate", winner |-> winner, reason |-> "Checkmate"]

Stalemate == [outcome |-> "stalemate", winner |-> null, reason |-> "Stalemate"]

Draw(reason) == [outcome |-> "draw", winner |-> null, reason |-> reason]

Ongoing == [outcome |-> "ongoing", winner |-> null, reason |-> null]

\* A result that names the side to move as the winner of a checkmate.
ResultForSideToMove(gs, a) ==
  IF ~a.hasLegalMoves
  THEN IF a.isCheck THEN Checkmate(gs.activeColor) ELSE Stalemate
  ELSE IF FiftyMoveRule(gs) THEN Draw("50-move rule")
  ELSE IF hasThreefoldRepetition(gs) THEN Draw("Threefold repetition")
  ELSE IF isInsufficientMaterial(gs) THEN Draw("Insufficient material")
  ELSE Ongoing

\* A result that looks for a repetition before the fifty-move rule.
ResultForRepetitionFirst(gs, a) ==
  IF ~a.hasLegalMoves
  THEN IF a.isCheck THEN Checkmate(oppositeColor(gs.activeColor))
       ELSE Stalemate
  ELSE IF hasThreefoldRepetition(gs) THEN Draw("Threefold repetition")
  ELSE IF FiftyMoveRule(gs) THEN Draw("50-move rule")
  ELSE IF isInsufficientMaterial(gs) THEN Draw("Insufficient material")
  ELSE Ongoing

\* The result chosen by updateResult from the analysis of the position.
ResultFor(gs, a) ==
  IF ~a.hasLegalMoves
  THEN IF a.isCheck THEN Checkmate(oppositeColor(gs.activeColor))
       ELSE Stalemate
  ELSE IF FiftyMoveRule(gs) THEN Draw("50-move rule")
  ELSE IF hasThreefoldRepetition(gs) THEN Draw("Threefold repetition")
  ELSE IF isInsufficientMaterial(gs) THEN Draw("Insufficient material")
  ELSE Ongoing

updateResult(gs) ==
  IF isGameOver(gs) THEN gs
  ELSE [gs EXCEPT !.result =
          ResultFor(gs, analyzePosition(asRulesState(gs)))]

\* The en passant step of applyMove: the square behind the destination,
\* seen from the mover, is emptied.
RemoveEnPassantVictim(board, move, color, toIndex) ==
  IF move.isEnPassant
  THEN [board EXCEPT
          ![(indexToFR(toIndex).rank
               + (IF color = "white" THEN 0 - 1 ELSE 1)) * 8
            + indexToFR(toIndex).file] = null]
  ELSE board

\* The castling step: the rook goes from the h file to the f file, or from
\* the a file to the d file, on the mover's back rank.
RelocateCastleRook(board, move, rank) ==
  IF move.isCastleKingSide
  THEN [board EXCEPT ![rank * 8 + 5] = board[rank * 8 + 7],
                     ![rank * 8 + 7] = null]
  ELSE IF move.isCastleQueenSide
  THEN [board EXCEPT ![rank * 8 + 3] = board[rank * 8 + 0],
                     ![rank * 8 + 0] = null]
  ELSE board

\* The destination is set: the promoted piece or the moving piece.
PlaceMovingPiece(board, move, movingPiece, color, toIndex) ==
  IF move.promotion # null
  THEN [board EXCEPT ![toIndex] =
          (IF color = "white" THEN "w" ELSE "b") \o move.promotion]
  ELSE [board EXCEPT ![toIndex] = movingPiece]

\* The piece placement part shared by applyMove, applyMoveInternalForSAN
\* and applyMoveSearch: origin cleared, en passant victim removed, castle
\* rook relocated, destination set.
MovePieces(board, move, movingPiece, color) ==
  PlaceMovingPiece(
    RelocateCastleRook(
      RemoveEnPassantVictim(
        [board EXCEPT ![algebraicToIndex(move.from)] = null],
        move, color, algebraicToIndex(move.to)),
      move, IF color = "white" THEN 0 ELSE 7),
    move, movingPiece, color, algebraicToIndex(move.to))

\* The rules state of the clone after applyMoveInternalForSAN(move).
applyMoveInternalForSAN(gs, move) ==
  LET movingPiece == gs.board[algebraicToIndex(move.from)]
      color == getColorOf(movingPiece)
  IN [board |-> MovePieces(gs.board, move, movingPiece, color),
      activeColor |-> oppositeColor(color),
      castlingRights |-> gs.castlingRights,
      enPassantTarget |-> gs.enPassantTarget]

\* The check and mate suffix of a notation entry.
WithSuffix(base, a) ==
  IF a.isCheck /\ ~a.hasLegalMoves THEN Append(base, "#")
  ELSE IF a.isCheck THEN Append(base, "+")
  ELSE base

toSimpleSAN(gs, move, movingPiece, isCapture) ==
  LET pieceType == CharAt(movingPiece, 1)
      base ==
        IF move.isCastleKingSide THEN <<"O", "-", "O">>
        ELSE IF move.isCastleQueenSide THEN <<"O", "-", "O", "-", "O">>
        ELSE (IF pieceType # "P" THEN <<pieceType>>
              ELSE IF isCapture THEN <<move.from[1]>> ELSE <<>>)
             \o (IF isCapture THEN <<"x">> ELSE <<>>)
             \o move.to
             \o (IF move.promotion # null THEN <<"=", move.promotion>> ELSE <<>>)
  IN WithSuffix(base, analyzePosition(applyMoveInternalForSAN(gs, move)))

\* Castling rights read off the board: king and rook on their squares.
updateCastlingRightsFromBoard(castlingRights, board, move, movingPiece) ==
  LET On(sq, piece) == board[algebraicToIndex(sq)] = piece
  IN [white |->
        [kingSide |-> On(<<"e", "1">>, "wK") /\ On(<<"h", "1">>, "wR"),
         queenSide |-> On(<<"e", "1">>, "wK") /\ On(<<"a", "1">>, "wR")],
      black |->
        [kingSide |-> On(<<"e", "8">>, "bK") /\ On(<<"h", "8">>, "bR"),
         queenSide |-> On(<<"e", "8">>, "bK") /\ On(<<"a", "8">>, "bR")]]

\* Castling rights that only a move of the king takes away.
updateCastlingRightsOnKingMove(castlingRights, board, move, movingPiece) ==
  [white |->
     [kingSide |-> castlingRights.white.kingSide /\ movingPiece # "wK",
      queenSide |-> castlingRights.white.queenSide /\ movingPiece # "wK"],
   black |->
     [kingSide |-> castlingRights.black.kingSide /\ movingPiece # "bK",
      queenSide |-> castlingRights.black.queenSide /\ movingPiece # "bK"]]

updateCastlingRights(castlingRights, board, move, movingPiece) ==
  LET fromSq == move.from
      toSq == move.to
      Touches(sq) == fromSq = sq \/ toSq = sq
  IN [white |->
        [kingSide |-> /\ castlingRights.white.kingSide
                      /\ movingPiece # "wK"
                      /\ ~Touches(<<"h", "1">>)
                      /\ board[algebraicToIndex(<<"h", "1">>)] = "wR",
         queenSide |-> /\ castlingRights.white.queenSide
                       /\ movingPiece # "wK"
                       /\ ~Touches(<<"a", "1">>)
                       /\ board[algebraicToIndex(<<"a", "1">>)] = "wR"],
      black |->
        [kingSide |-> /\ castlingRights.black.kingSide
                      /\ movingPiece # "bK"
                      /\ ~Touches(<<"h", "8">>)
                      /\ board[algebraicToIndex(<<"h", "8">>)] = "bR",
         queenSide |-> /\ castlingRights.black.queenSide
                       /\ movingPiece # "bK"
                       /\ ~Touches(<<"a", "8">>)
                       /\ board[algebraicToIndex(<<"a", "8">>)] = "bR"]]

\* An en passant target set behind every pawn that has moved.
EnPassantAfterAnyPawnMove(movingPiece, fromIndex, toIndex) ==
  LET fromRank == indexToFR(fromIndex).rank
      toRank == indexToFR(toIndex).rank
  IN IF movingPiece # null /\ CharAt(movingPiece, 1) = "P"
     THEN indexToAlgebraic(((fromRank + toRank) \div 2) * 8
                           + indexToFR(toIndex).file)
     ELSE NoSquare

\* enPassantTarget after a move of movingPiece from fromIndex to toIndex.
EnPassantAfter(movingPiece, fromIndex, toIndex) ==
  LET fromRank == indexToFR(fromIndex).rank
      toRank == indexToFR(toIndex).rank
  IN IF movingPiece # null /\ CharAt(movingPiece, 1) = "P"
        /\ Abs(toRank - fromRank) = 2
     THEN indexToAlgebraic(((fromRank + toRank) \div 2) * 8
                           + indexToFR(toIndex).file)
     ELSE NoSquare

\* The body of applyMove below its game-over guard.
MakeMove(gs, move) ==
    LET fromIndex == algebraicToIndex(move.from)
        toIndex == algebraicToIndex(move.to)
        movingPiece == gs.board[fromIndex]
        color == getColorOf(movingPiece)
        enemy == oppositeColor(color)
        isPawn == movingPiece # null /\ CharAt(movingPiece, 1) = "P"
        isCapture == move.captured # null \/ move.isEnPassant
        board2 == MovePieces(gs.board, move, movingPiece, color)
        moved ==
          [gs EXCEPT
             !.halfmoveClock = IF isPawn \/ isCapture THEN 0 ELSE @ + 1,
             !.enPassantTarget = EnPassantAfter(movingPiece, fromIndex, toIndex),
             !.board = board2,
             !.castlingRights =
                updateCastlingRights(@, board2, move, movingPiece),
             !.activeColor = enemy,
             !.fullmoveNumber = IF color = "black" THEN @ + 1 ELSE @,
             !.lastMove = [from |-> move.from, to |-> move.to]]
        san == toSimpleSAN(moved, move, movingPiece, isCapture)
        noted == [moved EXCEPT !.moveHistory = Append(@, san)]
    IN updateResult(recordRepetitionKey(noted))

\* An applyMove without the game-over guard.
applyMoveAfterTheEnd(gs, move) == MakeMove(gs, move)

\* An applyMove that resets the halfmove clock at every move.
applyMoveResettingClock(gs, move) ==
  IF isGameOver(gs) THEN gs
  ELSE [MakeMove(gs, move) EXCEPT !.halfmoveClock = 0]

applyMove(gs, move) == IF isGameOver(gs) THEN gs ELSE MakeMove(gs, move)

\* A move applied without passing the turn.
applyMoveRulesSameSide(state, move) ==
  LET fromIndex == algebraicToIndex(move.from)
      toIndex == algebraicToIndex(move.to)
      movingPiece == state.board[fromIndex]
      color == getColorOf(movingPiece)
      board2 == MovePieces(state.board, move, movingPiece, color)
  IN [board |-> board2,
      activeColor |-> color,
      castlingRights |->
        updateCastlingRights(state.castlingRights, board2, move, movingPiece),
      enPassantTarget |-> EnPassantAfter(movingPiece, fromIndex, toIndex)]

\* What applyMove does to the position, the four fields the rules read:
\* the pieces moved, the turn passed, the castling rights and the en
\* passant target updated.
applyMoveRules(state, move) ==
  LET fromIndex == algebraicToIndex(move.from)
      toIndex == algebraicToIndex(move.to)
      movingPiece == state.board[fromIndex]
      color == getColorOf(movingPiece)
      board2 == MovePieces(state.board, move, movingPiece, color)
  IN [board |-> board2,
      activeColor |-> oppositeColor(color),
      castlingRights |->
        updateCastlingRights(state.castlingRights, board2, move, movingPiece),
      enPassantTarget |-> EnPassantAfter(movingPiece, fromIndex, toIndex)]

\* The number of sequences of `depth` legal moves from the position: the
\* sum, over the legal moves lo..hi, of the numbers from the positions they
\* lead to.
RECURSIVE PerftSum(_, _, _, _, _)
RECURSIVE Perft(_, _)
PerftAmong(state, moves, depth) == PerftSum(state, moves, depth, 1, Len(moves))

Perft(state, depth) ==
  IF depth = 0 THEN 1
  ELSE IF depth = 1 THEN Len(generateLegalMoves(state))
  ELSE PerftAmong(state, generateLegalMoves(state), depth)

PerftSum(state, moves, depth, lo, hi) ==
  IF lo > hi THEN 0
  ELSE IF lo = hi THEN Perft(applyMoveRules(state, moves[lo]), depth - 1)
  ELSE PerftSum(state, moves, depth, lo, (lo + hi) \div 2)
         + PerftSum(state, moves, depth, (lo + hi) \div 2 + 1, hi)

createStarting(playerColor) ==
  recordRepetitionKey(
    [board |-> createStartingBoard,
     activeColor |-> "white",
     playerColor |-> playerColor,
     castlingRights |-> [white |-> [kingSide |-> TRUE, queenSide |-> TRUE],
                         black |-> [kingSide |-> TRUE, queenSide |-> TRUE]],
     enPassantTarget |-> NoSquare,
     halfmoveClock |-> 0,
     fullmoveNumber |-> 1,
     moveHistory |-> <<>>,
     result |-> NullResult,
     lastMove |-> NullLastMove,
     repetitionMap |-> <<>>,
     selectedSquare |-> NoSquare,
     cachedLegalTargets |-> <<>>])

\* Array.prototype.find over the tests' outcomes, one per element: the
\* index of the first element that passes, or 0.
FindIndex(passes) ==
  IF \E k \in 1..Len(passes) : passes[k]
  THEN CHOOSE k \in 1..Len(passes) :
         passes[k] /\ \A j \in 1..(k - 1) : ~passes[j]
  ELSE 0

\* The branch of handleSelection taken for a click on an own piece.
SelectPiece(gs, square, allLegal) ==
  [gs EXCEPT !.selectedSquare = square,
             !.cachedLegalTargets =
                LET own == SelectSeq(allLegal, LAMBDA m : m.from = square)
                IN [k \in 1..Len(own) |-> own[k].to]]

\* A MoveSelected that keeps the selection when the click names no move.
MoveSelectedOrKeep(gs, allLegal, k) ==
  IF k # 0
  THEN [applyMove(gs, allLegal[k]) EXCEPT
          !.selectedSquare = NoSquare, !.cachedLegalTargets = <<>>]
  ELSE gs

\* The branch taken for a click on a destination while a piece is selected:
\* k is the index of the first legal move from the selection to the square.
MoveSelected(gs, allLegal, k) ==
  IF k # 0
  THEN [applyMove(gs, allLegal[k]) EXCEPT
          !.selectedSquare = NoSquare, !.cachedLegalTargets = <<>>]
  ELSE [gs EXCEPT !.selectedSquare = NoSquare, !.cachedLegalTargets = <<>>]

\* A TryMoveSelected that applies the last legal move from the selection to
\* the square.
TryMoveSelectedLast(gs, square, allLegal) ==
  MoveSelected(gs, allLegal,
    FindIndex([k \in 1..Len(allLegal) |->
                 /\ allLegal[k].from = gs.selectedSquare
                 /\ allLegal[k].to = square
                 /\ \A j \in (k + 1)..Len(allLegal) :
                      ~(/\ allLegal[j].from = gs.selectedSquare
                        /\ allLegal[j].to = square)]))

TryMoveSelected(gs, square, allLegal) ==
  MoveSelected(gs, allLegal,
    FindIndex([k \in 1..Len(allLegal) |->
                 /\ allLegal[k].from = gs.selectedSquare
                 /\ allLegal[k].to = square]))

\* A handleSelection that does not ask whether the clicking side is to move.
handleSelectionForAnySide(gs, square, side) ==
  IF isGameOver(gs) THEN gs
  ELSE IF getPiece(gs, square) # null
          /\ getColorOf(getPiece(gs, square)) = side
  THEN SelectPiece(gs, square, generateLegalMoves(asRulesState(gs)))
  ELSE IF gs.selectedSquare # NoSquare
  THEN TryMoveSelected(gs, square, generateLegalMoves(asRulesState(gs)))
  ELSE gs

handleSelection(gs, square, side) ==
  IF isGameOver(gs) THEN gs
  ELSE IF side # gs.activeColor THEN gs
  ELSE IF getPiece(gs, square) # null
          /\ getColorOf(getPiece(gs, square)) = side
  THEN SelectPiece(gs, square, generateLegalMoves(asRulesState(gs)))
  ELSE IF gs.selectedSquare # NoSquare
  THEN TryMoveSelected(gs, square, generateLegalMoves(asRulesState(gs)))
  ELSE gs

\* Array.from(map.entries()): the pairs [key, value] in insertion order.
ArrayFromEntries(map) == [k \in 1..Len(map) |-> <<map[k][1], map[k][2]>>]

\* entries.forEach(([k, v]) => map.set(k, v)) over the first n entries, on
\* a new Map.
RECURSIVE MapOfEntries(_, _)
MapOfEntries(entries, n) ==
  IF n = 0 THEN <<>>
  ELSE MapSet(MapOfEntries(entries, n - 1), entries[n][1], entries[n][2])

\* A serialize that leaves the repetition map out.
serializeWithoutRepetitionMap(gs) ==
  [board |-> gs.board, activeColor |-> gs.activeColor,
   playerColor |-> gs.playerColor, castlingRights |-> gs.castlingRights,
   enPassantTarget |-> gs.enPassantTarget, halfmoveClock |-> gs.halfmoveClock,
   fullmoveNumber |-> gs.fullmoveNumber, moveHistory |-> gs.moveHistory,
   result |-> gs.result, lastMove |-> gs.lastMove,
   repetitionMap |-> <<>>]

\* GameState.serialize.
serialize(gs) ==
  [board |-> gs.board, activeColor |-> gs.activeColor,
   playerColor |-> gs.playerColor, castlingRights |-> gs.castlingRights,
   enPassantTarget |-> gs.enPassantTarget, halfmoveClock |-> gs.halfmoveClock,
   fullmoveNumber |-> gs.fullmoveNumber, moveHistory |-> gs.moveHistory,
   result |-> gs.result, lastMove |-> gs.lastMove,
   repetitionMap |-> ArrayFromEntries(gs.repetitionMap)]

\* new GameState(data) for the data of serialize: `value || default` gives
\* the default for null, 0 and the empty string; the board, the castling
\* rights and the move history are objects, which || keeps.
GameState(data) ==
  [board |-> data.board,
   activeColor |-> IF data.activeColor \in {null, ""} THEN "white"
                   ELSE data.activeColor,
   playerColor |-> IF data.playerColor \in {null, ""} THEN "white"
                   ELSE data.playerColor,
   castlingRights |-> data.castlingRights,
   enPassantTarget |-> IF data.enPassantTarget = NoSquare THEN NoSquare
                       ELSE data.enPassantTarget,
   halfmoveClock |-> IF data.halfmoveClock = 0 THEN 0 ELSE data.halfmoveClock,
   fullmoveNumber |-> IF data.fullmoveNumber = 0 THEN 1
                      ELSE data.fullmoveNumber,
   moveHistory |-> data.moveHistory,
   result |-> IF data.result = NullResult THEN NullResult ELSE data.result,
   lastMove |-> IF data.lastMove = NullLastMove THEN NullLastMove
                ELSE data.lastMove,
   repetitionMap |-> MapOfEntries(data.repetitionMap, Len(data.repetitionMap)),
   selectedSquare |-> NoSquare,
   cachedLegalTargets |-> <<>>]

(***************************************************************************)
(* Game.js                                                                 *)
(***************************************************************************)
\* A request matches a legal move m when from and to agree and the request
\* names no promotion or names m's.
RequestMatches(m, req) ==
  /\ m.from = req.from
  /\ m.to = req.to
  /\ (req.promotion = null \/ m.promotion = req.promotion)

\* The end of Game.handlePlayerMove: k is the index of validMove, or 0.
ApplyValidMove(gs, legalMoves, k) ==
  IF k = 0
  THEN [state |-> gs, success |-> FALSE, error |-> "Illegal move"]
  ELSE [state |-> applyMove(gs, legalMoves[k]),
        success |-> TRUE, error |-> null]

FindValidMove(gs, req, legalMoves) ==
  ApplyValidMove(gs, legalMoves,
    FindIndex([k \in 1..Len(legalMoves) |->
                 RequestMatches(legalMoves[k], req)]))

\* A handlePlayerMove that does not ask whose turn it is.
handlePlayerMoveOnAnyTurn(gs, req) ==
  IF isGameOver(gs)
  THEN [state |-> gs, success |-> FALSE, error |-> "Game is over"]
  ELSE FindValidMove(gs, req, generateLegalMoves(asRulesState(gs)))

\* Game.handlePlayerMove: the state after the call and the value returned.
handlePlayerMove(gs, req) ==
  IF isGameOver(gs)
  THEN [state |-> gs, success |-> FALSE, error |-> "Game is over"]
  ELSE IF gs.activeColor # gs.playerColor
  THEN [state |-> gs, success |-> FALSE, error |-> "Not your turn"]
  ELSE FindValidMove(gs, req, generateLegalMoves(asRulesState(gs)))

\* Game.handlePlayerSquareSelection: clicks are made for the player's side.
handlePlayerSquareSelection(gs, square) ==
  IF isGameOver(gs) THEN gs ELSE handleSelection(gs, square, gs.playerColor)

\* The absent move: what `!move` accepts in Game.applyAIMove.
NullMove ==
  [from |-> NoSquare, to |-> NoSquare, piece |-> null, captured |-> null,
   promotion |-> null, isEnPassant |-> FALSE,
   isCastleKingSide |-> FALSE, isCastleQueenSide |-> FALSE]

\* Game.applyAIMove: an absent move is ignored.
applyAIMove(gs, move) ==
  IF move = NullMove THEN gs ELSE applyMove(gs, move)

(***************************************************************************)
(* Evaluator.js                                                            *)
(***************************************************************************)
PIECE_VALUES == [P |-> 100, N |-> 320, B |-> 330, R |-> 500, Q |-> 900, K |-> 0]

PST_PAWN ==
  <<  0,   0,   0,   0,   0,   0,   0,   0,
     40,  50,  50,  60,  60,  50,  50,  40,
     10,  10,  20,  35,  35,  20,  10,  10,
      5,   5,  10,  25,  25,  10,   5,   5,
      0,   0,   5,  20,  20,   5,   0,   0,
      5,  -5, -10,   0,   0, -10,  -5,   5,
      5,  10,  10, -20, -20,  10,  10,   5,
      0,   0,   0,   0,   0,   0,   0,   0>>

PST_KNIGHT ==
  <<-50, -40, -30, -30, -30, -30, -40, -50,
    -40, -20,   0,   0,   0,   0, -20, -40,
    -30,   0,  10,  15,  15,  10,   0, -30,
    -30,   5,  15,  20,  20,  15,   5, -30,
    -30,   0,  15,  20,  20,  15,   0, -30,
    -30,   5,  10,  15,  15,  10,   5, -30,
    -40, -20,   0,   5,   5,   0, -20, -40,
    -50, -40, -30, -30, -30, -30, -40, -50>>

PST_BISHOP ==
  <<-20, -10, -10, -10, -10, -10, -10, -20,
    -10,   5,   0,   0,   0,   0,   5, -10,
    -10,  10,  10,  10,  10,  10,  10, -10,
    -10,   0,  10,  10,  10,  10,   0, -10,
    -10,   5,   5,  10,  10,   5,   5, -10,
    -10,   0,   5,  10,  10,   5,   0, -10,
    -10,   0,   0,   0,   0,   0,   0, -10,
    -20, -10, -10, -10, -10, -10, -10, -20>>

PST_ROOK ==
  <<  0,   0,   5,  10,  10,   5,   0,   0,
     -5,   0,   0,   0,   0,   0,   0,  -5,
     -5,   0,   0,   0,   0,   0,   0,  -5,
     -5,   0,   0,   0,   0,   0,   0,  -5,
     -5,   0,   0,   0,   0,   0,   0,  -5,
     -5,   0,   0,   0,   0,   0,   0,  -5,
      5,  10,  10,  10,  10,  10,  10,   5,
      0,   0,   0,   0,   0,   0,   0,   0>>

PST_QUEEN ==
  <<-20, -10, -10,  -5,  -5, -10, -10, -20,
    -10,   0,   5,   0,   0,   0,   0, -10,
    -10,   5,   5,   5,   5,   5,   0, -10,
     -5,   0,   5,   5,   5,   5,   0,  -5,
      0,   0,   5,   5,   5,   5,   0,  -5,
    -10,   5,   5,   5,   5,   5,   0, -10,
    -10,   0,   5,   0,   0,   0,   0, -10,
    -20, -10, -10,  -5,  -5, -10, -10, -20>>

PST_KING ==
  <<-30, -40, -40, -50, -50, -40, -40, -30,
    -30, -40, -40, -50, -50, -40, -40, -30,
    -30, -40, -40, -50, -50, -40, -40, -30,
    -30, -40, -40, -50, -50, -40, -40, -30,
    -20, -30, -30, -40, -40, -30, -30, -20,
    -10, -20, -20, -20, -20, -20, -20, -10,
     20,  20,   0,   0,   0,   0,  20,  20,
     20,  30,  10,   0,   0,  10,  30,  20>>

\* The table of each piece type; a JavaScript array is read at index + 1.
PST ==
  [P |-> PST_PAWN, N |-> PST_KNIGHT, B |-> PST_BISHOP, R |-> PST_ROOK,
   Q |-> PST_QUEEN, K |-> PST_KING]

pstIndex(index, color) ==
  IF color = "white" THEN index
  ELSE (7 - (index \div 8)) * 8 + (index % 8)

\* The term one square adds to the score in the loop of evaluate.
PieceScore(piece, i, color) ==
  IF piece = null THEN 0
  ELSE IF getColorOf(piece) = color
  THEN PIECE_VALUES[CharAt(piece, 1)]
         + PST[CharAt(piece, 1)][pstIndex(i, getColorOf(piece)) + 1]
  ELSE 0 - (PIECE_VALUES[CharAt(piece, 1)]
              + PST[CharAt(piece, 1)][pstIndex(i, getColorOf(piece)) + 1])

\* The sum of the terms of the squares lo..hi.
RECURSIVE EvaluateSquares(_, _, _, _)
EvaluateSquares(board, color, lo, hi) ==
  IF lo = hi THEN PieceScore(board[lo], lo, color)
  ELSE EvaluateSquares(board, color, lo, (lo + hi) \div 2)
         + EvaluateSquares(board, color, ((lo + hi) \div 2) + 1, hi)

\* evaluate(state, color): material and piece-square terms; the mobility
\* term is commented out in the source.
evaluate(state, color) == EvaluateSquares(state.board, color, 0, 63)

(***************************************************************************)
(* AI.js.  Three things the JavaScript leaves to its run are explicit      *)
(* here.  Objects: a SearchState is a record of its fields, and its        *)
(* sharesBoard and sharesRights say whether its board array and its        *)
(* castlingRights object are the very objects of the GameState handed to   *)
(* the search; that GameState is carried along as gameState and every      *)
(* operator that writes returns it as the writes leave it.  Time: a search *)
(* reads the clock to compare it with its budget; clock counts these reads *)
(* and the budget is given as expiry, the number of the first read that    *)
(* finds it spent (0: none does).  Chance: where the code draws from       *)
(* Math.random the operators return the set of moves it can draw.          *)
(***************************************************************************)
\* Stands for JavaScript's Infinity: above every score a search computes.
Infinity == 1000000

\* The score of a checkmate in minimax.
MateScore == 100000

Max(a, b) == IF a > b THEN a ELSE b

Min(a, b) == IF a < b THEN a ELSE b

\* Date.now() - startTime >= timeout, at the read that makes the count clock.
Expired(clock, expiry) == clock >= expiry /\ expiry # 0

BoardOf(state, gameState) ==
  IF state.sharesBoard THEN gameState.board ELSE state.board

RightsOf(state, gameState) ==
  IF state.sharesRights THEN gameState.castlingRights
  ELSE state.castlingRights

\* The GameState as the argument of the SearchState constructor.
AsBaseState(gameState) ==
  [board |-> gameState.board, sharesBoard |-> TRUE,
   castlingRights |-> gameState.castlingRights, sharesRights |-> TRUE,
   activeColor |-> gameState.activeColor,
   enPassantTarget |-> gameState.enPassantTarget,
   halfmoveClock |-> gameState.halfmoveClock,
   fullmoveNumber |-> gameState.fullmoveNumber]

\* What the rules read of a SearchState.
SeenBy(state, gameState) ==
  [board |-> BoardOf(state, gameState), activeColor |-> state.activeColor,
   castlingRights |-> RightsOf(state, gameState),
   enPassantTarget |-> state.enPassantTarget]

\* A cloneBoard that hands back the array it was given.
cloneBoardSameArray(state, gameState) ==
  [cells |-> BoardOf(state, gameState), shared |-> state.sharesBoard]

\* Board.cloneBoard(state.board): a new array with the same cells.
cloneBoard(state, gameState) ==
  [cells |-> BoardOf(state, gameState), shared |-> FALSE]

\* JSON.parse(JSON.stringify(state.castlingRights)): a new object with the
\* same four flags.
JsonCopy(state, gameState) ==
  [value |-> [white |-> [kingSide |-> RightsOf(state, gameState).white.kingSide,
                         queenSide |-> RightsOf(state, gameState).white.queenSide],
              black |-> [kingSide |-> RightsOf(state, gameState).black.kingSide,
                         queenSide |-> RightsOf(state, gameState).black.queenSide]],
   shared |-> FALSE]

SearchStateOf(baseState, clonedBoard, copiedRights) ==
  [board |-> clonedBoard.cells, sharesBoard |-> clonedBoard.shared,
   castlingRights |-> copiedRights.value, sharesRights |-> copiedRights.shared,
   activeColor |-> baseState.activeColor,
   enPassantTarget |-> baseState.enPassantTarget,
   halfmoveClock |-> baseState.halfmoveClock,
   fullmoveNumber |-> baseState.fullmoveNumber]

\* new SearchState(baseState).
SearchState(baseState, gameState) ==
  SearchStateOf(baseState, cloneBoard(baseState, gameState),
                JsonCopy(baseState, gameState))

\* SearchState.clone(): a new SearchState of this one, its fields then
\* assigned once more from this one.
clone(state, gameState) ==
  SearchStateOf(SearchState(state, gameState), cloneBoard(state, gameState),
                JsonCopy(state, gameState))

algebraicToIndexFast(sq) ==
  (NumberOfDigit(sq[2]) - 1) * 8 + FilesIndexOf(sq[1])

indexToAlgebraicFast(index) ==
  <<FILES[(index % 8) + 1], Digits[(index \div 8) + 2]>>

pieceValueApprox(piece) ==
  IF piece = null THEN 0
  ELSE IF piece \in DOMAIN PIECE_VALUES THEN PIECE_VALUES[piece]
  ELSE PIECE_VALUES[CharAt(piece, 1)]

\* The writes of applyMoveSearch to state.board, in the order of the code.
SearchBoardAfter(b, move, mover, fromIndex, toIndex) ==
  LET cleared == [b EXCEPT ![fromIndex] = null]
      capIndex == ((toIndex \div 8) + (IF mover = "white" THEN -1 ELSE 1)) * 8
                    + (toIndex % 8)
      taken == IF move.isEnPassant THEN [cleared EXCEPT ![capIndex] = null]
               ELSE cleared
      rank == IF mover = "white" THEN 0 ELSE 7
      castled ==
        IF move.isCastleKingSide
        THEN [taken EXCEPT ![rank * 8 + 5] = taken[rank * 8 + 7],
                           ![rank * 8 + 7] = null]
        ELSE IF move.isCastleQueenSide
        THEN [taken EXCEPT ![rank * 8 + 3] = taken[rank * 8 + 0],
                           ![rank * 8 + 0] = null]
        ELSE taken
  IN IF move.promotion # null
     THEN [castled EXCEPT ![toIndex] =
             (IF mover = "white" THEN "w" ELSE "b") \o move.promotion]
     ELSE [castled EXCEPT ![toIndex] = b[fromIndex]]

\* An update that clears a right when king or rook leaves its square, not
\* when the rook is taken on it.
updateCastlingRightsSearchOnLeaving(cr, fromIndex, toIndex, movingPiece) ==
  LET fromSq == indexToAlgebraicFast(fromIndex)
  IN [white |->
        [kingSide |-> /\ cr.white.kingSide
                      /\ movingPiece # "wK"
                      /\ fromSq # <<"h", "1">>,
         queenSide |-> /\ cr.white.queenSide
                       /\ movingPiece # "wK"
                       /\ fromSq # <<"a", "1">>],
      black |->
        [kingSide |-> /\ cr.black.kingSide
                      /\ movingPiece # "bK"
                      /\ fromSq # <<"h", "8">>,
         queenSide |-> /\ cr.black.queenSide
                       /\ movingPiece # "bK"
                       /\ fromSq # <<"a", "8">>]]

updateCastlingRightsSearch(cr, fromIndex, toIndex, movingPiece) ==
  LET fromSq == indexToAlgebraicFast(fromIndex)
      toSq == indexToAlgebraicFast(toIndex)
      touches(sq) == fromSq = sq \/ toSq = sq
  IN [white |->
        [kingSide |-> /\ cr.white.kingSide
                      /\ movingPiece # "wK"
                      /\ ~touches(<<"h", "1">>),
         queenSide |-> /\ cr.white.queenSide
                       /\ movingPiece # "wK"
                       /\ ~touches(<<"a", "1">>)],
      black |->
        [kingSide |-> /\ cr.black.kingSide
                      /\ movingPiece # "bK"
                      /\ ~touches(<<"h", "8">>),
         queenSide |-> /\ cr.black.queenSide
                       /\ movingPiece # "bK"
                       /\ ~touches(<<"a", "8">>)]]

SearchEnPassantAfter(isPawn, fromIndex, toIndex) ==
  IF isPawn /\ Abs((toIndex \div 8) - (fromIndex \div 8)) = 2
  THEN indexToAlgebraicFast(
         (((fromIndex \div 8) + (toIndex \div 8)) \div 2) * 8 + (toIndex % 8))
  ELSE NoSquare

\* The SearchState and the GameState after the writes: a write to an object
\* the SearchState shares with the GameState lands in the GameState.
Written(state, gameState, b, cr, fields) ==
  [state |->
     [fields EXCEPT
        !.board = IF state.sharesBoard THEN state.board ELSE b,
        !.castlingRights =
           IF state.sharesRights THEN state.castlingRights ELSE cr],
   gameState |->
     [gameState EXCEPT
        !.board = IF state.sharesBoard THEN b ELSE @,
        !.castlingRights = IF state.sharesRights THEN cr ELSE @]]

ApplySearchMove(state, gameState, move, mover, fromIndex, toIndex, movingPiece) ==
  Written(state, gameState,
    SearchBoardAfter(BoardOf(state, gameState), move, mover, fromIndex, toIndex),
    updateCastlingRightsSearch(RightsOf(state, gameState), fromIndex, toIndex,
                               movingPiece),
    [state EXCEPT
       !.halfmoveClock =
          IF (movingPiece # null /\ CharAt(movingPiece, 1) = "P")
             \/ move.captured # null \/ move.isEnPassant
          THEN 0 ELSE @ + 1,
       !.enPassantTarget =
          SearchEnPassantAfter(
            movingPiece # null /\ CharAt(movingPiece, 1) = "P",
            fromIndex, toIndex),
       !.activeColor = oppositeColor(mover),
       !.fullmoveNumber = IF mover = "black" THEN @ + 1 ELSE @])

\* applyMoveSearch(state, move, mover): the SearchState and the GameState
\* after the call.
applyMoveSearch(state, gameState, move, mover) ==
  ApplySearchMove(state, gameState, move, mover,
    algebraicToIndexFast(move.from), algebraicToIndexFast(move.to),
    BoardOf(state, gameState)[algebraicToIndexFast(move.from)])

\* Array.prototype.sort with a comparator b.key - a.key: descending, equal
\* keys keeping their order.  ranks[i] is the place of seq[i] in the result.
RanksDescending(keys) ==
  [i \in 1..Len(keys) |->
     1 + Cardinality({j \in 1..Len(keys) :
                        keys[j] > keys[i] \/ (keys[j] = keys[i] /\ j < i)})]

Permuted(seq, ranks) ==
  [r \in 1..Len(seq) |-> seq[CHOOSE i \in 1..Len(seq) : ranks[i] = r]]

SortedDescending(seq, keys) ==
  SubSeq(Permuted(seq, RanksDescending(keys)), 1, Len(seq))

depthForLevel == <<1, 2, 3, 3, 4>>

\* AI.randomness, in hundredths.
randomness == <<40, 25, 15, 8, 5>>

\* What a search returns of a score: timedOut is the null that signals the
\* spent budget.

\* searchRoot calls minimax, minimax calls itself and quiescence, and
\* quiescence calls itself.  The calls that have not returned are kept as a
\* stack of frames, one per call: the function, the place it has reached
\* (its entry, the generation of its moves, its loop, the call it waits
\* for, its return), its arguments and its locals.  A step runs the call on
\* top of the stack from one place to the next.  StepsLog bounds a run of
\* searchRoot to 2^StepsLog steps.
StepsLog == 14

\* A returned score; null is a record with timedOut.
Returned(score, timedOut) == [score |-> score, timedOut |-> timedOut]

Call(fn, state, depth, alpha, beta, isMaximizing, standPat) ==
  [fn |-> fn, at |-> "entry", state |-> state, depth |-> depth,
   isMaximizing |-> isMaximizing, moves |-> <<>>, i |-> 0,
   locals |-> [value |-> standPat, alpha |-> alpha, beta |-> beta,
               done |-> FALSE, timedOut |-> FALSE],
   baseScore |-> standPat, out |-> Returned(0, FALSE)]

Top(run) == run.frames[Len(run.frames)]

WithTop(run, frame) == [run EXCEPT !.frames[Len(run.frames)] = frame]

Return(run, frame, out) ==
  WithTop(run, [frame EXCEPT !.at = "return", !.out = out])

\* The call on top applies its move and calls callee on the result.
Called(run, frame, applied, callee) ==
  [run EXCEPT !.gameState = applied.gameState,
              !.frames = Append(SubSeq(@, 1, Len(@) - 1),
                                [frame EXCEPT !.at = "call"])
                           \o <<callee>>]

Ticked(run, reads) ==
  IF reads THEN [run EXCEPT !.clock = @ + 1] ELSE run

\* const next = state.clone(); applyMoveSearch(next, move, state.activeColor)
NextOf(run, frame) ==
  applyMoveSearch(clone(frame.state, run.gameState), run.gameState,
                  frame.moves[frame.i], frame.state.activeColor)

\* The sixteen first legal moves, captures or not.
LimitedMoves(allMoves) == SubSeq(allMoves, 1, Min(16, Len(allMoves)))

\* The sixteen first captures among the legal moves.
LimitedCaptures(allMoves) ==
  SubSeq(SelectSeq(allMoves, LAMBDA m : m.captured # null), 1,
         Min(16, Len(SelectSeq(allMoves, LAMBDA m : m.captured # null))))

\* -this.quiescence(...): the negation of null is -0.
NegatedQuiescence(q) == IF q.timedOut THEN 0 ELSE 0 - q.score

QuiescenceRaised(locals, score) ==
  [locals EXCEPT !.value = Max(@, score),
                 !.alpha = Max(@, Max(locals.value, score)),
                 !.done = Max(locals.alpha, Max(locals.value, score))
                            >= locals.beta]

QuiescenceChild(locals, q) == QuiescenceRaised(locals, NegatedQuiescence(q))

QuiescenceCall(run, frame, applied) ==
  Call("quiescence", applied.state, 0, 0 - frame.locals.beta,
       0 - frame.locals.alpha, FALSE,
       evaluate(SeenBy(applied.state, applied.gameState), run.ctx.rootColor))

QuiescenceTry(run, frame, applied) ==
  Called(run, frame, applied, QuiescenceCall(run, frame, applied))

\* run.nulls keeps what became of the budget's end in the calls of the
\* run: how each null returned was taken by the caller, and each return of
\* a score in its place.
Noted(run, use) == [run EXCEPT !.nulls = @ \cup use]

QuiescenceStep(run, frame) ==
  IF frame.locals.done \/ frame.i > Len(frame.moves)
  THEN Return(run, frame, Returned(frame.locals.value, FALSE))
  ELSE IF (frame.i - 1) % 5 = 0 /\ Expired(run.clock + 1, run.ctx.expiry)
  THEN Return(Noted(Ticked(run, TRUE), {"value returned by quiescence"}),
              frame, Returned(frame.locals.value, FALSE))
  ELSE WithTop(Ticked(run, (frame.i - 1) % 5 = 0),
               [frame EXCEPT !.at = "apply"])

QuiescenceMoves(run, frame) ==
  WithTop(run,
    [frame EXCEPT
       !.at = "loop", !.i = 1,
       !.moves = LimitedCaptures(
                   generateLegalMoves(SeenBy(frame.state, run.gameState)))])

quiescence(run, frame) ==
  IF Expired(run.clock + 1, run.ctx.expiry)
  THEN Return(Ticked(run, TRUE), frame, Returned(0, TRUE))
  ELSE IF frame.locals.value > frame.locals.alpha
          /\ frame.locals.value >= frame.locals.beta
  THEN Return(Ticked(run, TRUE), frame,
              Returned(frame.locals.value, FALSE))
  ELSE WithTop(Ticked(run, TRUE),
         [frame EXCEPT !.at = "moves",
                       !.locals.alpha = Max(@, frame.locals.value)])

\* The score of a node without moves, or the static evaluation.
BaseScore(state, gameState, legalMoves, rootColor) ==
  IF Len(legalMoves) = 0
  THEN IF isInCheck(SeenBy(state, gameState))
       THEN IF state.activeColor = rootColor THEN 0 - MateScore ELSE MateScore
       ELSE 0
  ELSE evaluate(SeenBy(state, gameState), rootColor)

\* The stand-pat score stands when quiescence returns null.
AfterQuiescence(baseScore, q) ==
  IF q.timedOut THEN Returned(baseScore, FALSE) ELSE q

MinimaxLeaf(run, frame, baseScore) ==
  IF frame.depth <= 0 /\ run.ctx.level >= 4
  THEN [run EXCEPT
          !.frames = Append(SubSeq(@, 1, Len(@) - 1),
                            [frame EXCEPT !.at = "leaf",
                                          !.baseScore = baseScore])
                       \o <<Call("quiescence", frame.state, 0,
                                 frame.locals.alpha, frame.locals.beta,
                                 FALSE, baseScore)>>]
  ELSE Return(run, frame, Returned(baseScore, FALSE))

\* The moves of a node in the order minimax tries them.
MinimaxOrder(legalMoves) ==
  SortedDescending(legalMoves,
    [k \in 1..Len(legalMoves) |->
       pieceValueApprox(legalMoves[k].captured)
         + pieceValueApprox(legalMoves[k].promotion)])

MinimaxChild(locals, isMaximizing, child) ==
  IF child.timedOut
  THEN [locals EXCEPT !.done = TRUE, !.timedOut = TRUE]
  ELSE IF isMaximizing
  THEN [locals EXCEPT !.value = Max(@, child.score),
                      !.alpha = Max(@, Max(locals.value, child.score)),
                      !.done = Max(locals.alpha,
                                   Max(locals.value, child.score))
                                 >= locals.beta]
  ELSE [locals EXCEPT !.value = Min(@, child.score),
                      !.beta = Min(@, Min(locals.value, child.score)),
                      !.done = locals.alpha
                                 >= Min(locals.beta,
                                        Min(locals.value, child.score))]

MinimaxCall(frame, applied) ==
  Call("minimax", applied.state, frame.depth - 1, frame.locals.alpha,
       frame.locals.beta, ~frame.isMaximizing, 0)

MinimaxTry(run, frame, applied) ==
  Called(run, frame, applied, MinimaxCall(frame, applied))

MinimaxStep(run, frame) ==
  IF frame.locals.done \/ frame.i > Len(frame.moves)
  THEN Return(run, frame,
              Returned(IF frame.locals.timedOut THEN 0
                       ELSE frame.locals.value,
                       frame.locals.timedOut))
  ELSE IF (frame.i - 1) % 10 = 0 /\ Expired(run.clock + 1, run.ctx.expiry)
  THEN Return(Ticked(run, TRUE), frame, Returned(0, TRUE))
  ELSE WithTop(Ticked(run, (frame.i - 1) % 10 = 0),
               [frame EXCEPT !.at = "apply"])

MinimaxNode(run, frame) ==
  IF frame.depth = 0 \/ Len(frame.moves) = 0
  THEN MinimaxLeaf(run, frame,
                   BaseScore(frame.state, run.gameState, frame.moves,
                             run.ctx.rootColor))
  ELSE WithTop(run,
         [frame EXCEPT
            !.at = "loop", !.moves = MinimaxOrder(frame.moves), !.i = 1,
            !.locals.value = IF frame.isMaximizing THEN 0 - Infinity
                             ELSE Infinity])

MinimaxMoves(run, frame) ==
  WithTop(run,
    [frame EXCEPT
       !.at = "node",
       !.moves = generateLegalMoves(SeenBy(frame.state, run.gameState))])

minimax(run, frame) ==
  IF Expired(run.clock + 1, run.ctx.expiry)
  THEN Return(Ticked(run, TRUE), frame, Returned(0, TRUE))
  ELSE WithTop(Ticked(run, TRUE), [frame EXCEPT !.at = "moves"])

\* The moves of the root in the order searchRoot tries them.
RootOrder(legalMoves) ==
  SortedDescending(legalMoves,
    [k \in 1..Len(legalMoves) |-> pieceValueApprox(legalMoves[k].captured)])

\* The body of the loop of searchRoot after its call of minimax.
\* locals.cut says that the spent budget ended the loop.
RootChild(move, isMaximizing, locals, child) ==
  IF child.timedOut
  THEN [locals EXCEPT !.done = TRUE, !.cut = TRUE]
  ELSE IF isMaximizing
  THEN [locals EXCEPT
          !.bestMove = IF child.score > locals.bestScore THEN move ELSE @,
          !.bestScore = Max(@, child.score),
          !.alpha = Max(@, child.score),
          !.done = locals.beta <= Max(locals.alpha, child.score)]
  ELSE [locals EXCEPT
          !.bestMove = IF child.score < locals.bestScore THEN move ELSE @,
          !.bestScore = Min(@, child.score),
          !.beta = Min(@, child.score),
          !.done = Min(locals.beta, child.score) <= locals.alpha]

RootTry(run, frame, applied) ==
  Called(run, frame, applied, MinimaxCall(frame, applied))

RootStep(run, frame) ==
  IF frame.locals.done \/ frame.i > Len(frame.moves)
  THEN Return(run, frame, frame.locals)
  ELSE IF Expired(run.clock + 1, run.ctx.expiry)
  THEN WithTop(Ticked(run, TRUE),
               [frame EXCEPT !.locals.done = TRUE, !.locals.cut = TRUE])
  ELSE WithTop(Ticked(run, TRUE), [frame EXCEPT !.at = "apply"])

\* searchRoot at the head of its loop.
RootCall(state, ordered, depth, color) ==
  [fn |-> "searchRoot", at |-> "loop", state |-> state, depth |-> depth,
   isMaximizing |-> state.activeColor = color, moves |-> ordered, i |-> 1,
   locals |-> [bestMove |-> ordered[1],
               bestScore |-> IF state.activeColor = color
                             THEN 0 - Infinity ELSE Infinity,
               alpha |-> 0 - Infinity, beta |-> Infinity,
               done |-> FALSE, cut |-> FALSE],
   baseScore |-> 0, out |-> Returned(0, FALSE)]

\* The caller takes the value its call returned.
Resumed(caller, out) ==
  CASE caller.at = "leaf" ->
         [caller EXCEPT !.at = "return",
                        !.out = AfterQuiescence(caller.baseScore, out)]
    [] caller.at = "call" /\ caller.fn = "searchRoot" ->
         [caller EXCEPT
            !.locals = RootChild(caller.moves[caller.i], caller.isMaximizing,
                                 @, out),
            !.i = @ + 1, !.at = "loop"]
    [] caller.at = "call" /\ caller.fn = "minimax" ->
         [caller EXCEPT !.locals = MinimaxChild(@, caller.isMaximizing, out),
                        !.i = @ + 1, !.at = "loop"]
    [] caller.at = "call" /\ caller.fn = "quiescence" ->
         [caller EXCEPT !.locals = QuiescenceChild(@, out),
                        !.i = @ + 1, !.at = "loop"]

\* What the caller does with the value returned when it is null.
NullTaken(caller, out) ==
  IF ~out.timedOut THEN {}
  ELSE IF caller.at = "leaf" THEN {"stand-pat returned by minimax"}
  ELSE IF caller.fn = "quiescence" THEN {"negated to 0 by quiescence"}
  ELSE {"propagated"}

Returning(run, frame) ==
  IF Len(run.frames) = 1
  THEN [run EXCEPT !.frames = <<>>, !.halted = TRUE, !.result = frame.out]
  ELSE [run EXCEPT
          !.frames = Append(SubSeq(@, 1, Len(@) - 2),
                            Resumed(run.frames[Len(run.frames) - 1],
                                    frame.out)),
          !.nulls = @ \cup NullTaken(run.frames[Len(run.frames) - 1],
                                     frame.out)]

SearchStep(run, frame) ==
  CASE frame.at = "return" -> Returning(run, frame)
    [] frame.at = "loop" /\ frame.fn = "searchRoot" ->
         RootStep(run, frame)
    [] frame.at = "apply" /\ frame.fn = "searchRoot" ->
         RootTry(run, frame, NextOf(run, frame))
    [] frame.at = "entry" /\ frame.fn = "minimax" -> minimax(run, frame)
    [] frame.at = "moves" /\ frame.fn = "minimax" -> MinimaxMoves(run, frame)
    [] frame.at = "node" /\ frame.fn = "minimax" ->
         MinimaxNode(run, frame)
    [] frame.at = "loop" /\ frame.fn = "minimax" ->
         MinimaxStep(run, frame)
    [] frame.at = "apply" /\ frame.fn = "minimax" ->
         MinimaxTry(run, frame, NextOf(run, frame))
    [] frame.at = "entry" /\ frame.fn = "quiescence" ->
         quiescence(run, frame)
    [] frame.at = "moves" /\ frame.fn = "quiescence" ->
         QuiescenceMoves(run, frame)
    [] frame.at = "loop" /\ frame.fn = "quiescence" ->
         QuiescenceStep(run, frame)
    [] frame.at = "apply" /\ frame.fn = "quiescence" ->
         QuiescenceTry(run, frame, NextOf(run, frame))

\* 2^n steps of the run, or its steps up to the return of its first call.
RECURSIVE SearchSteps(_, _)
RECURSIVE Continued(_, _)
SearchSteps(run, n) ==
  IF n = 0 THEN SearchStep(run, Top(run))
  ELSE Continued(SearchSteps(run, n - 1), n - 1)

Continued(run, n) == IF run.halted THEN run ELSE SearchSteps(run, n)

\* The loop of searchRoot, ran to its end.
RootLoop(state, gameState, ordered, depth, ctx, clock) ==
  Continued([frames |-> <<RootCall(state, ordered, depth, ctx.rootColor)>>,
             clock |-> clock, gameState |-> gameState, ctx |-> ctx,
             halted |-> FALSE, result |-> Returned(0, FALSE), nulls |-> {}],
            StepsLog)

\* The moves of the root in the order searchRoot tries them.
CandidateTry(move, bestScore, band, color, acc, applied) ==
  [candidates |->
     IF Abs(evaluate(SeenBy(applied.state, applied.gameState), color)
              - bestScore) <= band
     THEN Append(acc.candidates, move) ELSE acc.candidates,
   done |-> FALSE,
   clock |-> acc.clock + 1,
   gameState |-> applied.gameState]

CandidateStep(state, ordered, i, bestScore, band, color, expiry, acc) ==
  IF Expired(acc.clock + 1, expiry)
  THEN [acc EXCEPT !.done = TRUE, !.clock = @ + 1]
  ELSE CandidateTry(ordered[i], bestScore, band, color, acc,
         applyMoveSearch(clone(state, acc.gameState), acc.gameState,
                         ordered[i], state.activeColor))

\* The loop of searchRoot that collects the moves near the best score.
RECURSIVE CandidateLoop(_, _, _, _, _, _, _, _, _)
CandidateLoop(state, ordered, lo, hi, bestScore, band, color, expiry, acc) ==
  IF acc.done THEN acc
  ELSE IF lo = hi
  THEN CandidateStep(state, ordered, lo, bestScore, band, color, expiry, acc)
  ELSE CandidateLoop(state, ordered, ((lo + hi) \div 2) + 1, hi, bestScore,
         band, color, expiry,
         CandidateLoop(state, ordered, lo, (lo + hi) \div 2, bestScore, band,
                       color, expiry, acc))

\* What searchRoot returns: moves holds every move the draw from Math.random
\* can make it return.
Found(moves, cut, clock, gameState) ==
  [moves |-> moves, cut |-> cut, clock |-> clock, gameState |-> gameState,
   nulls |-> {}]

AmongCandidates(root, c) ==
  Found(IF Len(c.candidates) > 0
        THEN {c.candidates[k] : k \in 1..Len(c.candidates)}
        ELSE {root.bestMove},
        root.cut, c.clock, c.gameState)

\* The end of searchRoot: unless the budget is spent, one of the moves whose
\* static score is near the best score is returned in place of the best move.
Jitter(state, ordered, color, level, expiry, root) ==
  IF Expired(root.clock + 1, expiry)
  THEN Found({root.bestMove}, root.cut, root.clock + 1, root.gameState)
  ELSE IF randomness[level] > 0 /\ Len(ordered) > 1
  THEN AmongCandidates(root,
         CandidateLoop(state, ordered, 1, Len(ordered), root.bestScore,
                       (PIECE_VALUES.P * randomness[level] * 2) \div 100,
                       color, expiry,
                       [candidates |-> <<>>, done |-> FALSE,
                        clock |-> root.clock + 1,
                        gameState |-> root.gameState]))
  ELSE Found({root.bestMove}, root.cut, root.clock + 1, root.gameState)

\* searchRoot once its loop has ended; a run that has not ended within the
\* bound returns nothing.
AfterRootLoop(state, ordered, color, level, expiry, run) ==
  IF run.halted
  THEN Jitter(state, ordered, color, level, expiry,
              [bestMove |-> run.result.bestMove,
               bestScore |-> run.result.bestScore, cut |-> run.result.cut,
               clock |-> run.clock, gameState |-> run.gameState])
  ELSE Found({}, TRUE, run.clock, run.gameState)

\* searchRoot from the end of its loop, with the run's nulls.
AfterRun(state, ordered, color, level, expiry, run) ==
  [AfterRootLoop(state, ordered, color, level, expiry, run)
     EXCEPT !.nulls = run.nulls]

SearchOrdered(state, gameState, ordered, depth, color, level, expiry, clock) ==
  AfterRun(state, ordered, color, level, expiry,
    RootLoop(state, gameState, ordered, depth,
             [rootColor |-> color, level |-> level, expiry |-> expiry],
             clock))

\* AI.searchRoot(state, legalMoves, depth, color, {level, timeout, startTime}).
searchRoot(state, gameState, legalMoves, depth, color, level, expiry, clock) ==
  SearchOrdered(state, gameState, RootOrder(legalMoves), depth, color, level,
                expiry, clock)

Level1Scored(color, acc, applied) ==
  [scores |-> Append(acc.scores,
                     evaluate(SeenBy(applied.state, applied.gameState),
                              color)),
   gameState |-> applied.gameState]

Level1Step(state, moves, color, i, acc) ==
  Level1Scored(color, acc,
    applyMoveSearch(clone(state, acc.gameState), acc.gameState, moves[i],
                    state.activeColor))

\* The scores pickLevel1Move maps the moves lo..hi to, after those of acc.
RECURSIVE Level1Scores(_, _, _, _, _, _)
Level1Scores(state, moves, color, lo, hi, acc) ==
  IF Len(acc.scores) # lo - 1 THEN acc
  ELSE IF lo = hi THEN Level1Step(state, moves, color, lo, acc)
  ELSE Level1Scores(state, moves, color, ((lo + hi) \div 2) + 1, hi,
         Level1Scores(state, moves, color, lo, (lo + hi) \div 2, acc))

\* The moves pickLevel1Move draws from: the best four tenths, one at least.
Level1Top(sorted) ==
  {sorted[k] : k \in 1..Max(1, (Len(sorted) * 4) \div 10)}

Level1Pick(moves, scored) ==
  [moves |-> Level1Top(SortedDescending(moves, scored.scores)),
   gameState |-> scored.gameState]

\* AI.pickLevel1Move(state, moves, color).
pickLevel1Move(state, gameState, moves, color) ==
  Level1Pick(moves,
    Level1Scores(state, moves, color, 1, Len(moves),
                 [scores |-> <<>>, gameState |-> gameState]))

\* A call of findBestMove: its SearchState, the legal moves and the locals
\* of progressiveDeepeningSearch, the clock and the budget, and whether it is
\* waiting for the timer between two iterations or has resolved, to
\* bestMove.  deepest is the move returned by the last iteration that the
\* budget did not cut short, the absent move if there is none yet; nulls is
\* what became of the budget's end in the calls of minimax and quiescence.
SearchOf(state, legalMoves, maxDepth, color, level, expiry, bestMove, status) ==
  [state |-> state, legalMoves |-> legalMoves, maxDepth |-> maxDepth,
   color |-> color, level |-> level, expiry |-> expiry, clock |-> 0,
   currentDepth |-> 1, bestMove |-> bestMove, status |-> status,
   deepest |-> NullMove, nulls |-> {}]

\* The head of the loop of progressiveDeepeningSearch, up to the await or
\* the return.
LoopHead(search) ==
  IF search.currentDepth > search.maxDepth
  THEN [search EXCEPT !.status = "resolved"]
  ELSE IF Expired(search.clock + 1, search.expiry)
  THEN [search EXCEPT !.status = "resolved", !.clock = @ + 1]
  ELSE [search EXCEPT !.status = "waiting", !.clock = @ + 1]

\* The rest of an iteration once searchRoot has returned move.
AfterSearchRoot(search, move, cut, clock) ==
  IF Expired(clock + 1, search.expiry)
  THEN [search EXCEPT !.bestMove = move, !.clock = clock + 1,
                      !.deepest = IF cut THEN @ ELSE move,
                      !.status = "resolved"]
  ELSE LoopHead([search EXCEPT !.bestMove = move, !.clock = clock + 1,
                               !.deepest = IF cut THEN @ ELSE move,
                               !.currentDepth = @ + 1])

DeepenedBy(search, found) ==
  {[search |-> [AfterSearchRoot(search, move, found.cut, found.clock)
                  EXCEPT !.nulls = @ \cup found.nulls],
    gameState |-> found.gameState] : move \in found.moves}

\* An iteration of progressiveDeepeningSearch, from the timer that ends the
\* await to the next await or the return: the searches it can leave, each
\* with the GameState as the iteration leaves it.
Deepened(search, gameState) ==
  DeepenedBy(search,
    searchRoot(search.state, gameState, search.legalMoves,
               search.currentDepth, search.color, search.level,
               search.expiry, search.clock))

\* A progressiveDeepeningSearch that starts without a move to fall back on.
progressiveDeepeningSearchFromNothing(state, legalMoves, maxDepth, color, level, expiry) ==
  LoopHead(SearchOf(state, legalMoves, maxDepth, color, level, expiry,
                    NullMove, "waiting"))

\* AI.progressiveDeepeningSearch up to its first await.
progressiveDeepeningSearch(state, legalMoves, maxDepth, color, level, expiry) ==
  LoopHead(SearchOf(state, legalMoves, maxDepth, color, level, expiry,
                    legalMoves[1], "waiting"))

Level1Found(state, legalMoves, color, expiry, picked) ==
  {[search |-> SearchOf(state, legalMoves, 1, color, 1, expiry, move,
                        "resolved"),
    gameState |-> picked.gameState] : move \in picked.moves}

FindAmong(gameState, level, forColor, expiry, baseState, legalMoves) ==
  IF Len(legalMoves) = 0
  THEN {[search |-> SearchOf(baseState, legalMoves, depthForLevel[level],
                             forColor, level, expiry, NullMove, "resolved"),
         gameState |-> gameState]}
  ELSE IF level = 1
  THEN Level1Found(baseState, legalMoves, forColor, expiry,
                   pickLevel1Move(baseState, gameState, legalMoves, forColor))
  ELSE {[search |-> progressiveDeepeningSearch(baseState, legalMoves,
                      depthForLevel[level], forColor, level, expiry),
         gameState |-> gameState]}

FindFrom(gameState, level, forColor, expiry, baseState) ==
  FindAmong(gameState, level, forColor, expiry, baseState,
            generateLegalMoves(SeenBy(baseState, gameState)))

\* AI.findBestMove(gameState, {level, forColor, timeout}) up to its first
\* await or its return: the searches it can leave, each with the GameState
\* as the call leaves it.
findBestMove(gameState, level, forColor, expiry) ==
  FindFrom(gameState, Max(1, Min(5, level)), forColor, expiry,
           SearchState(AsBaseState(gameState), gameState))

\* No call of AI.findBestMove is under way or has returned.
NoSearch == [status |-> "none"]

(***************************************************************************)
(* The state machine.  The variables are the fields of the Game's          *)
(* GameState, and three history variables: `played`, the moves applied so  *)
(* far, each with its name ("e2e4", "e7e8Q"), its squares, the piece that  *)
(* stood on the origin and the piece that stood on the destination;        *)
(* `seen`, the positions the game went through, the starting one first;    *)
(* `free`, the number of calls made off the opening lines; `ended`, the     *)
(* operations called since the game is over; `legalMoves`, the value of    *)
(* generateLegalMoves for the present position, as the snapshot gives it.  *)
(* `search` is the call of AI.findBestMove under way or just returned: its *)
(* SearchState, its arguments and the locals of progressiveDeepeningSearch.*)
(* While a search waits for its timer no other operation is called, and    *)
(* the next operation called drops the search that has returned.           *)
(* `controller` is the state of the page's controller: the number of the   *)
(* Game it holds, isProcessingMove, the animation-frame callbacks          *)
(* requested and not yet run, and the calls of triggerAIMove that await    *)
(* their search; the engine's own specification leaves it alone.           *)
(* `lastCall` is the call of a function of the engine made on inputs of    *)
(* its own, with what it returned, in the specifications that make such    *)
(* calls.                                                                  *)
(***************************************************************************)
VARIABLES board, activeColor, playerColor, castlingRights, enPassantTarget,
          halfmoveClock, fullmoveNumber, moveHistory, result, lastMove,
          repetitionMap, selectedSquare, cachedLegalTargets, played, seen, free,
          ended, legalMoves, search, controller, lastCall

stateVars == <<board, activeColor, playerColor, castlingRights,
               enPassantTarget, halfmoveClock, fullmoveNumber, moveHistory,
               result, lastMove, repetitionMap, selectedSquare,
               cachedLegalTargets>>

vars ==
  <<stateVars, played, seen, free, ended, legalMoves, search, controller,
    lastCall>>

\* The GameState object made of the current values of the variables.
GS ==
  [board |-> board, activeColor |-> activeColor, playerColor |-> playerColor,
   castlingRights |-> castlingRights, enPassantTarget |-> enPassantTarget,
   halfmoveClock |-> halfmoveClock, fullmoveNumber |-> fullmoveNumber,
   moveHistory |-> moveHistory, result |-> result, lastMove |-> lastMove,
   repetitionMap |-> repetitionMap, selectedSquare |-> selectedSquare,
   cachedLegalTargets |-> cachedLegalTargets]

\* The variables become the fields of gs.
Becomes(gs) ==
  /\ board' = gs.board
  /\ activeColor' = gs.activeColor
  /\ playerColor' = gs.playerColor
  /\ castlingRights' = gs.castlingRights
  /\ enPassantTarget' = gs.enPassantTarget
  /\ halfmoveClock' = gs.halfmoveClock
  /\ fullmoveNumber' = gs.fullmoveNumber
  /\ moveHistory' = gs.moveHistory
  /\ result' = gs.result
  /\ lastMove' = gs.lastMove
  /\ repetitionMap' = gs.repetitionMap
  /\ selectedSquare' = gs.selectedSquare
  /\ cachedLegalTargets' = gs.cachedLegalTargets

\* The variables are the fields of gs.
Is(gs) ==
  /\ board = gs.board
  /\ activeColor = gs.activeColor
  /\ playerColor = gs.playerColor
  /\ castlingRights = gs.castlingRights
  /\ enPassantTarget = gs.enPassantTarget
  /\ halfmoveClock = gs.halfmoveClock
  /\ fullmoveNumber = gs.fullmoveNumber
  /\ moveHistory = gs.moveHistory
  /\ result = gs.result
  /\ lastMove = gs.lastMove
  /\ repetitionMap = gs.repetitionMap
  /\ selectedSquare = gs.selectedSquare
  /\ cachedLegalTargets = gs.cachedLegalTargets

Range(seq) == {seq[k] : k \in 1..Len(seq)}

\* The 64 squares, and the square a two-character name ("e4") stands for.
Squares == {indexToAlgebraic(i) : i \in 0..63}

SquareNamed(n) == CHOOSE sq \in Squares : sq[1] \o sq[2] = n

MoveName(m) ==
  m.from[1] \o m.from[2] \o m.to[1] \o m.to[2]
    \o (IF m.promotion # null THEN m.promotion ELSE "")

\* The position of a GameState: what the repetition rule compares.
Position(gs) ==
  <<gs.board, gs.activeColor, gs.castlingRights, gs.enPassantTarget>>

(***************************************************************************)
(* The games explored.  An opening line is a sequence of moves, each with  *)
(* its origin, destination and name; the calls follow the lines of         *)
(* Lines from the standard position (those of LinesAsBlack when the        *)
(* player is Black), and after a line of FreePlayFrom, with the player as  *)
(* White, up to MaxFree further calls are made with any input.             *)
(***************************************************************************)
MaxFree == 1

\* <<"e2", "e4", "e7", "e5">> is the line 1. e2-e4 e7-e5.
Line(s) ==
  [i \in 1..(Len(s) \div 2) |->
     [from |-> s[2 * i - 1], to |-> s[2 * i],
      name |-> s[2 * i - 1] \o s[2 * i]]]

RECURSIVE Repeat(_, _)
Repeat(s, n) == IF n = 0 THEN <<>> ELSE s \o Repeat(s, n - 1)

\* white[1], black[1], white[2], black[2], ...; white may be one longer.
Interleave(white, black) ==
  [i \in 1..(Len(white) + Len(black)) |->
     IF i % 2 = 1 THEN white[(i + 1) \div 2] ELSE black[i \div 2]]

\* 1. f3 e5 2. g4 Qh4#
FoolsMate == Line(<<"f2", "f3", "e7", "e5", "g2", "g4", "d8", "h4">>)

\* The calls go on after the mate: 3. a3 Qxe1.
FoolsMateAndOn == FoolsMate \o Line(<<"a2", "a3", "h4", "e1">>)

\* The knights go out and home twice: the starting position a third time.
KnightsDance ==
  Repeat(Line(<<"g1", "f3", "g8", "f6", "f3", "g1", "f6", "g8">>), 2)

\* Sam Loyd's stalemate in ten moves.
LoydStalemate ==
  Line(<<"e2", "e3", "a7", "a5", "d1", "h5", "a8", "a6", "h5", "a5",
         "h7", "h5", "h2", "h4", "a6", "h6", "a5", "c7", "f7", "f6",
         "c7", "d7", "e8", "f7", "d7", "b7", "d8", "d3", "b7", "b8",
         "d3", "h7", "b8", "c8", "f7", "g6", "c8", "e6">>)

\* 1. f3 e5 2. g4 a6, then 99 knight moves: White's queen's knight goes
\* round b1-a3-b5-c3 five times and round b1-c3-a4-b6-c4-a3 five times,
\* Black's king's knight round g8-f6-d5-f4-h5-g3-e4-d6-f5-h6 five times
\* less its last move.  The position after 2... a6 recurs after White's
\* 20th knight move and Black's 20th, and would recur after the 50th.
WhiteRoundOfFour == Line(<<"b1", "a3", "a3", "b5", "b5", "c3", "c3", "b1">>)

WhiteRoundOfSix ==
  Line(<<"b1", "c3", "c3", "a4", "a4", "b6", "b6", "c4", "c4", "a3",
         "a3", "b1">>)

BlackRoundOfTen ==
  Line(<<"g8", "f6", "f6", "d5", "d5", "f4", "f4", "h5", "h5", "g3",
         "g3", "e4", "e4", "d6", "d6", "f5", "f5", "h6", "h6", "g8">>)

NinetyNineQuiet ==
  Line(<<"f2", "f3", "e7", "e5", "g2", "g4", "a7", "a6">>)
    \o Interleave(Repeat(WhiteRoundOfFour, 5) \o Repeat(WhiteRoundOfSix, 5),
                  SubSeq(Repeat(BlackRoundOfTen, 5), 1, 49))

\* The hundredth quiet halfmove: the knight goes home (the position a third
\* time), the king steps to e7 (a new position), or Qh4 mate.
HundredthHome == NinetyNineQuiet \o Line(<<"h6", "g8">>)

HundredthAway == NinetyNineQuiet \o Line(<<"e8", "e7">>)

HundredthMate == NinetyNineQuiet \o Line(<<"d8", "h4">>)

\* 1. e4 e5 2. Nf3 Nf6 3. Bc4 Bc5 4. O-O O-O
Italian ==
  Line(<<"e2", "e4", "e7", "e5", "g1", "f3", "g8", "f6", "f1", "c4",
         "f8", "c5">>)

CastleKingSide == Italian \o Line(<<"e1", "g1", "e8", "g8">>)

\* 1. d4 d5 2. Nc3 Nc6 3. Bf4 Bf5 4. Qd2 Qd7 5. O-O-O O-O-O
CastleQueenSide ==
  Line(<<"d2", "d4", "d7", "d5", "b1", "c3", "b8", "c6", "c1", "f4",
         "c8", "f5", "d1", "d2", "d8", "d7", "e1", "c1", "e8", "c8">>)

\* The king's rooks go to the g file and back, then 6. a3 a6.
RooksThereAndBack ==
  Italian \o Line(<<"h1", "g1", "h8", "g8", "g1", "h1", "g8", "h8",
                    "a2", "a3", "a7", "a6">>)

\* The kings go to the second rank and back, then 6. a3 a6.
KingsThereAndBack ==
  Italian \o Line(<<"e1", "e2", "e8", "e7", "e2", "e1", "e7", "e8",
                    "a2", "a3", "a7", "a6">>)

\* 1. e4 b6 2. Bc4 Ba6 3. Bb3 Nc6 4. Nf3 h6: the bishop on a6 attacks f1,
\* the square White's king would cross.
CrossingAttacked ==
  Line(<<"e2", "e4", "b7", "b6", "f1", "c4", "c8", "a6", "c4", "b3",
         "b8", "c6", "g1", "f3", "h7", "h6", "a2", "a3">>)

\* 4. d3 Bb4+: White is in check.
WhiteInCheck == Italian \o Line(<<"d2", "d3", "c5", "b4", "c2", "c3">>)

\* 1. e4 e5 2. f4 Bc5 3. Nf3 Nf6 4. Bc4 a6: the bishop on c5 attacks g1,
\* the square White's king would land on.
LandingAttacked ==
  Line(<<"e2", "e4", "e7", "e5", "f2", "f4", "f8", "c5", "g1", "f3",
         "g8", "f6", "f1", "c4", "a7", "a6", "a2", "a3">>)

\* 1. b3 g6 2. Bb2 Bh6 3. Bxh8 Nf6 4. a3: Black's king's rook is taken on
\* its corner.
RookTaken ==
  Line(<<"b2", "b3", "g7", "g6", "c1", "b2", "f8", "h6", "b2", "h8",
         "g8", "f6", "a2", "a3", "a7", "a6">>)

\* 1. e4 a6 2. e5 d5, then 3. exd6 at once, or 3. a3 a5 first.
PawnPassed == Line(<<"e2", "e4", "a7", "a6", "e4", "e5", "d7", "d5">>)

EnPassant == PawnPassed \o Line(<<"e5", "d6", "c7", "d6">>)

EnPassantLate == PawnPassed \o Line(<<"a2", "a3", "a6", "a5", "h2", "h3">>)

\* 1. a3 e5 2. a4 e4 3. d4 exd3
EnPassantByBlack ==
  Line(<<"a2", "a3", "e7", "e5", "a3", "a4", "e5", "e4", "d2", "d4",
         "e4", "d3", "c2", "d3">>)

\* A game of captures down to king against king and knight, ending with
\* 25. Kxf2.
KingAndKnight ==
  Line(<<"e2", "e3", "b7", "b5", "f1", "b5", "f7", "f5", "b5", "d7", "d8",
         "d7", "e3", "e4", "f5", "e4", "e1", "f1", "d7", "d2", "d1", "d2",
         "c8", "d7", "d2", "d7", "e8", "f7", "d7", "c7", "h7", "h6", "c1",
         "h6", "h8", "h6", "c7", "e7", "f7", "e7", "a2", "a4", "h6", "h2",
         "h1", "h2", "g8", "f6", "g1", "f3", "f6", "h7", "h2", "h7", "e4",
         "f3", "h7", "g7", "f8", "g7", "g2", "f3", "g7", "b2", "f3", "f4",
         "b2", "a1", "c2", "c3", "a1", "c3", "b1", "c3", "e7", "f8", "c3",
         "b5", "f8", "e7", "b5", "a7", "a8", "a7", "a4", "a5", "a7", "a5",
         "f4", "f5", "a5", "f5", "f1", "e2", "f5", "f2", "e2", "f2">>)

\* The move of a pawn from `from` to `to` promoting to `piece`.
Promote(from, to, piece) ==
  <<[from |-> from, to |-> to, name |-> from \o to \o piece]>>

\* 1. h4 g5 2. hxg5 h6 3. gxh6 Bg7 4. hxg7 Nf6: White's pawn on g7 can
\* promote on g8 or, taking the rook, on h8.
PawnOnSeventh ==
  Line(<<"h2", "h4", "g7", "g5", "h4", "g5", "h7", "h6", "g5", "h6",
         "f8", "g7", "h6", "g7", "g8", "f6">>)

\* 5. gxh8=Q+ Ng8
PromotionToQueen ==
  PawnOnSeventh \o Promote("g7", "h8", "Q") \o Line(<<"f6", "g8">>)

\* 5. g8=N Rxg8
PromotionToKnight ==
  PawnOnSeventh \o Promote("g7", "g8", "N") \o Line(<<"h8", "g8">>)

\* The lines explored with the player as White, and as Black.
Lines ==
  {FoolsMateAndOn, KnightsDance, LoydStalemate, KingAndKnight,
   HundredthHome, HundredthAway, HundredthMate,
   CastleKingSide, CastleQueenSide, RooksThereAndBack, KingsThereAndBack,
   CrossingAttacked, WhiteInCheck, LandingAttacked, RookTaken,
   EnPassant, EnPassantLate, EnPassantByBlack,
   PromotionToQueen, PromotionToKnight}

LinesAsBlack ==
  {FoolsMateAndOn, KnightsDance, CastleKingSide, EnPassantByBlack}

LinesOf(color) == IF color = "white" THEN Lines ELSE LinesAsBlack

\* The lines whose moves are made not only by GameState.applyMove but also
\* through Game.handlePlayerMove and Game.applyAIMove and by clicks.
GameLines == {FoolsMateAndOn, KnightsDance, CastleKingSide, EnPassant,
              EnPassantByBlack, PromotionToQueen, PromotionToKnight}

\* The positions from which calls off the lines are made.
FreePlayFrom == {<<>>, Italian, PawnPassed}

Names == [i \in 1..Len(played) |-> played[i].name]

\* The entries that continue a line of `lines` the game has followed so far.
Continuations(names, lines) ==
  {l[Len(names) + 1] :
     l \in {t \in lines : /\ Len(t) > Len(names)
                          /\ \A i \in 1..Len(names) : t[i].name = names[i]}}

\* Whether a call off the lines may be made now.
OffLine(names) ==
  /\ free < MaxFree
  /\ playerColor = "white"
  /\ free > 0 \/ \E l \in FreePlayFrom :
                    /\ Len(l) = Len(names)
                    /\ \A i \in 1..Len(l) : l[i].name = names[i]

\* What the inputs of a call are drawn from: the names of the moves that
\* continue a line; the names, origins and destinations of those also made
\* through the Game; whether a call off the lines may be made.
ChoicesAmong(names, next, game) ==
  [names |-> {e.name : e \in next},
   gameNames |-> {e.name : e \in game},
   froms |-> {SquareNamed(e.from) : e \in game},
   tos |-> {SquareNamed(e.to) : e \in game},
   offLine |-> OffLine(names)]

ChoicesAfter(names) ==
  IF free = 0
  THEN ChoicesAmong(names, Continuations(names, LinesOf(playerColor)),
                    Continuations(names, GameLines \cap LinesOf(playerColor)))
  ELSE ChoicesAmong(names, {}, {})

Choices == ChoicesAfter(Names)

LegalMoves == legalMoves

\* The move a call applied, read from the position before it and the
\* GameState after it.
Applied(after) ==
  LET from == after.lastMove.from
      to == after.lastMove.to
      piece == board[algebraicToIndex(from)]
      placed == after.board[algebraicToIndex(to)]
  IN [name |-> from[1] \o from[2] \o to[1] \o to[2]
                 \o (IF CharAt(piece, 1) = "P" /\ CharAt(placed, 1) # "P"
                     THEN CharAt(placed, 1) ELSE ""),
      from |-> from, to |-> to, piece |-> piece,
      taken |-> board[algebraicToIndex(to)]]

\* The call made the GameState `after`; e is the move it applied, if any.
\* A call is on the lines when it applies the next move of a line with no
\* selection left pending, or selects the origin of such a move, or clears
\* the selection; every other call that changes the state is off the lines.
StepWith(c, after, isMove, e, op) ==
  /\ search.status # "waiting"
  /\ search' = NoSearch
  /\ UNCHANGED <<controller, lastCall>>
  /\ Becomes(after)
  /\ ended' = IF isGameOver(GS) THEN ended \cup {op} ELSE ended
  /\ legalMoves' = IF isMove THEN generateLegalMoves(asRulesState(after))
                   ELSE legalMoves
  /\ played' = IF isMove THEN Append(played, e) ELSE played
  /\ seen' = IF isMove THEN Append(seen, Position(after)) ELSE seen
  /\ IF after = GS
     THEN free' = free
     ELSE IF /\ free = 0
             /\ after.selectedSquare \in {NoSquare} \cup c.froms
             /\ isMove => after.selectedSquare = NoSquare /\ e.name \in c.names
     THEN free' = free
     ELSE c.offLine /\ free' = free + 1

Step(c, after, op) ==
  IF Len(after.moveHistory) > Len(moveHistory)
  THEN StepWith(c, after, TRUE, Applied(after), op)
  ELSE StepWith(c, after, FALSE, <<>>, op)

\* The moves a caller passes now: any move of the position generated for
\* it once the game is over, any legal move off the lines, the moves that
\* continue a line (one of `names`) otherwise.
MoveInputs(c, names) ==
  IF isGameOver(GS) THEN Range(generatePseudoLegalMoves(asRulesState(GS)))
  ELSE IF c.offLine THEN Range(LegalMoves)
  ELSE IF names = {} THEN {}
  ELSE {m \in Range(LegalMoves) : MoveName(m) \in names}

ClickSquares ==
  {SquareNamed(n) : n \in {"e1", "e2", "e4", "g1", "e8", "e7", "e5", "g8"}}

SquareInputs(c) ==
  IF isGameOver(GS) THEN Squares
  ELSE c.froms \cup c.tos \cup (IF c.offLine THEN ClickSquares ELSE {})

Request(m) == [from |-> m.from, to |-> m.to, promotion |-> m.promotion]

\* The requests a caller sends now: each input move with and without its
\* promotion piece, and with them a request no position allows.
RequestsFor(moves) ==
  IF moves = {} THEN {}
  ELSE {Request(m) : m \in moves}
         \cup {[Request(m) EXCEPT !.promotion = null] : m \in moves}
         \cup {[from |-> <<"a", "1">>, to |-> <<"a", "1">>,
                promotion |-> null]}

\* The controller before the page's script has run.
NoController == [game |-> 0]

\* No function has been called on inputs of its own.
NoCall == [fn |-> "none"]

Init ==
  /\ \E pc \in {"white", "black"} : Is(createStarting(pc))
  /\ played = <<>>
  /\ seen = <<<<createStartingBoard, "white",
                [white |-> [kingSide |-> TRUE, queenSide |-> TRUE],
                 black |-> [kingSide |-> TRUE, queenSide |-> TRUE]],
                NoSquare>>>>
  /\ free = 0
  /\ ended = {}
  /\ legalMoves = generateLegalMoves(asRulesState(GS))
  /\ search = NoSearch
  /\ controller = NoController
  /\ lastCall = NoCall

SearchInput(level, forColor, expiry) ==
  [level |-> level, forColor |-> forColor, expiry |-> expiry]

\* The calls of AI.findBestMove at the starting position: every level, one
\* below and one above the levels there are, for either colour, with budgets
\* that end before the first iteration, within it and after it.
StartInputs ==
  {SearchInput(1, "white", 0), SearchInput(0, "white", 1),
   SearchInput(2, "white", 65), SearchInput(2, "black", 2),
   SearchInput(3, "white", 1), SearchInput(4, "white", 30),
   SearchInput(4, "white", 31), SearchInput(5, "white", 65),
   SearchInput(6, "white", 1)}

\* The calls at the position before the last move of KingAndKnight, two
\* kings, a rook and a knight: searches that run to their full depth, and
\* one whose budget ends at the first root move of the first iteration.
DeepInputs ==
  {SearchInput(3, "white", 0), SearchInput(5, "white", 0),
   SearchInput(4, "white", 2)}

\* The calls once the game is over.
EndInputs ==
  IF Len(legalMoves) = 0
  THEN {SearchInput(level, activeColor, 0) : level \in 1..5}
  ELSE {SearchInput(4, activeColor, 1)}

\* The calls of AI.findBestMove made from the present position.
SearchInputs ==
  IF free # 0 \/ selectedSquare # NoSquare \/ playerColor # "white"
     \/ ended # {}
  THEN {}
  ELSE IF isGameOver(GS) THEN EndInputs
  ELSE IF played = <<>> THEN StartInputs
  ELSE IF /\ Len(played) = Len(KingAndKnight) - 1
          /\ \A i \in 1..Len(played) : played[i].name = KingAndKnight[i].name
  THEN DeepInputs
  ELSE {}

\* A step of a search leaves `found` and the GameState it carries.
Searched(found) ==
  /\ search' = found.search
  /\ Becomes(found.gameState)
  /\ UNCHANGED <<played, seen, free, ended, legalMoves, controller, lastCall>>

\* AI.findBestMove(gameState, {level, forColor, timeout}), up to its first
\* await or its return.
FindBestMove ==
  /\ search = NoSearch
  /\ \E input \in SearchInputs :
       \E found \in findBestMove(GS, input.level, input.forColor,
                                 input.expiry) : Searched(found)

\* An iteration of AI.progressiveDeepeningSearch, from the timer that ends
\* its await to the next await or to the return.
Deepen ==
  /\ search.status = "waiting"
  /\ \E found \in Deepened(search, GS) : Searched(found)

\* GameState.applyMove(move).
ApplyMove ==
  \E c \in {Choices} : \E move \in MoveInputs(c, c.names) :
    \E after \in {applyMove(GS, move)} : Step(c, after, "applyMove")

\* GameState.handleSelection(square, side).
HandleSelection ==
  \E c \in {Choices} :
    \E square \in SquareInputs(c) : \E side \in {"white", "black"} :
      \E after \in {handleSelection(GS, square, side)} :
        Step(c, after, "handleSelection")

\* Game.handlePlayerMove(move).
HandlePlayerMove ==
  \E c \in {Choices} : \E req \in RequestsFor(MoveInputs(c, c.gameNames)) :
    \E after \in {handlePlayerMove(GS, req).state} :
      Step(c, after, "handlePlayerMove")

\* Game.applyAIMove(move).
ApplyAIMove ==
  \E c \in {Choices} :
    \E moves \in {MoveInputs(c, c.gameNames)} :
      \E move \in (IF moves = {} THEN {} ELSE moves \cup {NullMove}) :
        \E after \in {applyAIMove(GS, move)} :
          Step(c, after, "applyAIMove")

Next ==
  \/ ApplyMove \/ HandleSelection \/ HandlePlayerMove \/ ApplyAIMove
  \/ FindBestMove \/ Deepen

Spec == Init /\ [][Next]_vars

(***************************************************************************)
(* The page's controller (ThemeManager.js): its handlers for the New Game  *)
(* button and the board's squares, the animation-frame callbacks they      *)
(* request, and triggerAIMove, which awaits Game.computeAIMove.  The       *)
(* variables of the GameState are those of the Game the controller holds   *)
(* (the starting position while it holds none, controller.game = 0);       *)
(* the GameStates of the Games it has replaced are kept in                 *)
(* controller.retired for as long as a search reads them.  A step is one   *)
(* task of the event loop together with the microtasks that follow it.     *)
(***************************************************************************)
\* Games made by the controller, callbacks waiting for a frame, moves in
\* the history of a game.
MaxGames == 3

MaxFrames == 2

MaxPlies == 2

\* The levels the difficulty control is set to.
Difficulties == {1, 2}

\* Date.now() during a search: the read that first finds the ten seconds of
\* findBestMove's default timeout spent (0: none does).
Budgets == {2}

\* The squares clicked.
ControllerSquares ==
  {SquareNamed(n) : n \in {"e2", "e4", "e7", "e5"}}

\* GameState.applyMove(move) when the origin of the move is empty: the
\* fields as they are assigned up to the TypeError of toSimpleSAN reading
\* movingPiece[1].
applyMoveUntilThrown(gs, move) ==
  LET fromIndex == algebraicToIndex(move.from)
      toIndex == algebraicToIndex(move.to)
      isCapture == move.captured # null \/ move.isEnPassant
      board2 == MovePieces(gs.board, move, null, null)
  IN [gs EXCEPT
        !.halfmoveClock = IF isCapture THEN 0 ELSE @ + 1,
        !.enPassantTarget = NoSquare,
        !.board = board2,
        !.castlingRights = updateCastlingRights(@, board2, move, null),
        !.activeColor = oppositeColor(null),
        !.lastMove = [from |-> move.from, to |-> move.to]]

\* The GameState of the Game numbered id.
StateOfGame(id) == IF id = controller.game THEN GS ELSE controller.retired[id]

\* The controller and the GameState of its Game become c and gs;
\* the engine's history variables are not the controller's.
ControllerBecomes(c, gs) ==
  /\ controller' = [c EXCEPT !.retired = [id \in DOMAIN @ |->
                       IF \E k \in DOMAIN c.calls : c.calls[k].game = id
                       THEN @[id] ELSE null]]
  /\ Becomes(gs)
  /\ UNCHANGED <<played, seen, free, ended, legalMoves, search, lastCall>>

\* requestAnimationFrame(callback).
Requested(c) == [c EXCEPT !.frames = @ + 1]

\* initializeGame: a new Game replaces the one held; the computer is asked
\* to move at the next frame when the player is Black.
initializeGame(c, gs, old) ==
  LET held == [c EXCEPT !.game = @ + 1,
                        !.retired = IF c.game = 0 THEN @ ELSE Append(@, old)]
  IN ControllerBecomes(
       IF gs.activeColor # gs.playerColor /\ ~isGameOver(gs)
       THEN Requested(held) ELSE held, gs)

\* handleNewGameRequested, with the colour and the difficulty read from
\* the controls ("random" resolves to either colour).
HandleNewGameRequested ==
  /\ controller.game < MaxGames
  /\ controller.frames < MaxFrames
  /\ ~controller.isProcessingMove
  /\ \E playerColour \in {"white", "black"} :
       \E difficulty \in Difficulties :
         initializeGame([controller EXCEPT !.difficulty = difficulty],
                        createStarting(playerColour), GS)

\* The end of handleSquareSelected: after a move, the computer is asked to
\* move at the next frame.
SquareSelected(c, gs, moved) ==
  ControllerBecomes(IF moved /\ ~isGameOver(gs) THEN Requested(c) ELSE c, gs)

\* handleSquareSelected(square).
HandleSquareSelected ==
  /\ controller.game # 0
  /\ controller.frames < MaxFrames
  /\ Len(moveHistory) < MaxPlies
  /\ ~controller.isProcessingMove
  /\ activeColor = playerColor
  /\ ~isGameOver(GS)
  /\ \E square \in ControllerSquares :
       \E after \in {handlePlayerSquareSelection(GS, square)} :
         SquareSelected(controller, after,
                        Len(after.moveHistory) > Len(moveHistory))

\* triggerAIMove from the value of the awaited promise to its end, run on
\* the Game the controller holds now, whose GameState is gs.
AfterComputeAIMove(c, gs, aiMove) ==
  ControllerBecomes(
    [c EXCEPT !.isProcessingMove = FALSE],
    IF aiMove = NullMove \/ isGameOver(gs) THEN gs
    ELSE IF gs.board[algebraicToIndex(aiMove.from)] = null
    THEN applyMoveUntilThrown(gs, aiMove)
    ELSE applyMove(gs, aiMove))

\* The value of the "thinking-time" input, in seconds, as the page may
\* hold it: a number typed in, nothing, or no such input in the page.
ThinkingTimes == {"5", "10"}

\* Number(input.value || 10) for the values above.
ThinkingTimeValue(value) ==
  CASE value = "" -> 10 [] value = "5" -> 5 [] value = "10" -> 10

\* Controls.getThinkingTime(), in milliseconds.
getThinkingTime(value) ==
  IF value = "missing" THEN 10000
  ELSE Max(1000, Min(60000, ThinkingTimeValue(value) * 1000))

\* The options Game.computeAIMove passes to findBestMove: no timeout (<<>>).
computeAIMoveOptions(level, forColor) ==
  [level |-> level, forColor |-> forColor, timeout |-> <<>>]

\* The default of findBestMove's timeout parameter, in milliseconds.
DefaultTimeout == 10000

\* The timeout findBestMove runs with: `timeout = 10000` in its parameters.
TimeoutOf(options) ==
  IF options.timeout = <<>> THEN DefaultTimeout ELSE options.timeout[1]

\* A call of triggerAIMove that awaits the search found.search, started on
\* the Game numbered game; timeout is the budget the search was given.
Awaiting(c, game, found) ==
  [c EXCEPT !.calls =
     Append(@, [game |-> game, search |-> found.search,
                timeout |-> TimeoutOf(computeAIMoveOptions(c.difficulty,
                                                           activeColor))])]

\* triggerAIMove up to its await, and beyond it when the search has
\* returned at once.
triggerAIMove(c) ==
  \E expiry \in Budgets :
    \E found \in findBestMove(GS, c.difficulty, activeColor, expiry) :
      IF found.search.status = "resolved"
      THEN AfterComputeAIMove(c, found.gameState, found.search.bestMove)
      ELSE ControllerBecomes(
             Awaiting([c EXCEPT !.isProcessingMove = TRUE], c.game, found),
             found.gameState)

\* A callback passed to requestAnimationFrame is run.
AnimationFrame ==
  /\ controller.game # 0
  /\ controller.frames > 0
  /\ \E c \in {[controller EXCEPT !.frames = @ - 1]} :
       IF isGameOver(GS) \/ activeColor = playerColor
       THEN ControllerBecomes(c, GS)
       ELSE triggerAIMove(c)

\* The controller once the Game numbered `game` has the GameState gs.
RetiredWith(c, game, gs) ==
  IF game = c.game THEN c ELSE [c EXCEPT !.retired[game] = gs]

\* The search of the call at the head of the timer queue has run an
\* iteration and left `found`.
Iterated(c, call, found) ==
  IF found.search.status = "resolved"
  THEN AfterComputeAIMove(RetiredWith(c, call.game, found.gameState),
         IF call.game = c.game THEN found.gameState ELSE GS,
         found.search.bestMove)
  ELSE ControllerBecomes(
         RetiredWith([c EXCEPT !.calls = Append(@, [call EXCEPT
                                            !.search = found.search])],
                     call.game, found.gameState),
         IF call.game = c.game THEN found.gameState ELSE GS)

\* The timer of the oldest waiting search fires: the search runs an
\* iteration; when it returns, the call of triggerAIMove that awaited it
\* runs to its end.
SearchTimer ==
  /\ controller.game # 0
  /\ controller.calls # <<>>
  /\ \E call \in {Head(controller.calls)} :
       \E found \in Deepened(call.search, StateOfGame(call.game)) :
         Iterated([controller EXCEPT !.calls = Tail(@)], call, found)

\* The page once its script has run: no Game yet.
ControllerInit ==
  /\ Is(createStarting("white"))
  /\ played = <<>>
  /\ seen = <<Position(GS)>>
  /\ free = 0
  /\ ended = {}
  /\ legalMoves = generateLegalMoves(asRulesState(GS))
  /\ search = NoSearch
  /\ controller = [game |-> 0, isProcessingMove |-> FALSE, frames |-> 0,
                   calls |-> <<>>, retired |-> <<>>,
                   difficulty |-> 3, thinkingTime |-> "10"]
  /\ lastCall = NoCall

\* The player sets the "Thinking Time" input (before the first game).
ThinkingTimeChanged ==
  /\ controller.game = 0
  /\ \E value \in ThinkingTimes \ {controller.thinkingTime} :
       ControllerBecomes([controller EXCEPT !.thinkingTime = value], GS)

ControllerNext ==
  \/ HandleNewGameRequested \/ HandleSquareSelected \/ AnimationFrame
  \/ SearchTimer \/ ThinkingTimeChanged

ControllerSpec == ControllerInit /\ [][ControllerNext]_vars

(***************************************************************************)
(* The tree of games from the standard position: every legal move is       *)
(* applied with applyMove, PerftPlies moves deep; `played` is the line     *)
(* that leads to the position.                                             *)
(***************************************************************************)
PerftPlies == 2

PerftInit == Init /\ playerColor = "white"

PerftMove ==
  /\ Len(played) < PerftPlies
  /\ \E move \in Range(legalMoves) :
       \E after \in {applyMove(GS, move)} :
         /\ Becomes(after)
         /\ played' = Append(played, Applied(after))
         /\ seen' = Append(seen, Position(after))
         /\ legalMoves' = generateLegalMoves(asRulesState(after))
         /\ UNCHANGED <<free, ended, search, controller, lastCall>>

PerftNext == PerftMove

PerftSpec == PerftInit /\ [][PerftNext]_vars

(***************************************************************************)
(* Calls of the coordinate conversions of Board.js: algebraicToIndex on    *)
(* an argument of CoordinateInputs, then indexToAlgebraic on the index it  *)
(* returned.  The GameState is not in play.                                *)
(***************************************************************************)
\* The characters the arguments are made of: files, a letter past h, an
\* upper-case file, ranks, digits out of range, a space, a letter.
CoordinateChars == {"a", "e", "h", "i", "A", "0", "1", "8", "9", " ", "x"}

\* The strings of n characters.
StringsOf(n) == {StringOf(chars) : chars \in [1..n -> CoordinateChars]}

\* The strings of three characters that begin with a coordinate.
LongStrings ==
  {StringOf(<<f, r, c>>) : f \in {"a", "h"}, r \in {"1", "8"},
                           c \in {"1", "a", " "}}

CoordinateInputs ==
  {StringOf(<<>>)} \cup StringsOf(1) \cup StringsOf(2) \cup LongStrings
    \cup {NotAString("null"), NotAString("undefined"), NotAString("number")}

CoordinateBecomes(c) ==
  /\ lastCall' = c
  /\ UNCHANGED <<stateVars, played, seen, free, ended, legalMoves, search,
                 controller>>

CoordinateInit ==
  /\ Is(createStarting("white"))
  /\ played = <<>>
  /\ seen = <<Position(GS)>>
  /\ free = 0
  /\ ended = {}
  /\ legalMoves = <<>>
  /\ search = NoSearch
  /\ controller = NoController
  /\ \E sq \in CoordinateInputs :
       lastCall = [fn |-> "algebraicToIndex", sq |-> sq, step |-> "called"]

\* algebraicToIndex(sq).
AlgebraicToIndex ==
  /\ lastCall.step = "called"
  /\ \E out \in {algebraicToIndexOfAny(lastCall.sq)} :
       CoordinateBecomes([fn |-> "algebraicToIndex", sq |-> lastCall.sq,
                          step |-> "returned", threw |-> out.threw,
                          value |-> out.value])

\* indexToAlgebraic(index) on the index returned.
IndexToAlgebraic ==
  /\ lastCall.step = "returned"
  /\ ~lastCall.threw
  /\ CoordinateBecomes([fn |-> "indexToAlgebraic", sq |-> lastCall.sq,
                        step |-> "mapped", threw |-> FALSE,
                        value |-> lastCall.value,
                        back |-> indexToAlgebraicOfAny(lastCall.value)])

CoordinateNext == AlgebraicToIndex \/ IndexToAlgebraic

CoordinateSpec == CoordinateInit /\ [][CoordinateNext]_vars

(***************************************************************************)
(* The functions of a GameState called on positions of their own: Init     *)
(* draws the GameState, each action calls one function on it and leaves    *)
(* what it returned in lastCall.                                           *)
(***************************************************************************)
\* The pieces set beside the two kings, and the squares they are set on: c1
\* is a dark square, f1 and c8 are light squares.
MaterialPieces == {null, "wB", "bB", "wN", "bN", "wP", "bP", "wR", "bQ"}

MaterialSquares == <<<<"c", "1">>, <<"f", "1">>, <<"c", "8">>>>

\* The board with the kings at home and extras[k] on MaterialSquares[k].
MaterialBoard(extras) ==
  [i \in 0..63 |->
     IF i = algebraicToIndex(<<"e", "1">>) THEN "wK"
     ELSE IF i = algebraicToIndex(<<"e", "8">>) THEN "bK"
     ELSE IF \E k \in 1..3 : i = algebraicToIndex(MaterialSquares[k])
     THEN extras[CHOOSE k \in 1..3 : i = algebraicToIndex(MaterialSquares[k])]
     ELSE null]

NoRights ==
  [white |-> [kingSide |-> FALSE, queenSide |-> FALSE],
   black |-> [kingSide |-> FALSE, queenSide |-> FALSE]]

MaterialInputs ==
  {[createStarting("white") EXCEPT !.board = MaterialBoard(extras),
                                   !.castlingRights = NoRights,
                                   !.repetitionMap = <<>>] :
     extras \in [1..3 -> MaterialPieces]}

\* The starting board with the piece on `from` moved to `to`.
BoardWithMoved(b, from, to) ==
  [b EXCEPT ![algebraicToIndex(to)] = b[algebraicToIndex(from)],
            ![algebraicToIndex(from)] = null]

KeyBoards ==
  {createStartingBoard,
   BoardWithMoved(createStartingBoard, <<"e", "2">>, <<"e", "4">>)}

KeyTargets == {NoSquare, <<"e", "3">>, <<"d", "6">>}

KeyClocks == {<<0, 1>>, <<5, 7>>}

\* The states buildRepetitionKey is called on: two boards, either side to
\* move, every combination of castling rights, an en passant target or
\* none, and two settings of the two counters.
KeyInputs ==
  {[createStarting("white") EXCEPT
      !.board = b, !.activeColor = c,
      !.castlingRights = [white |-> [kingSide |-> r[1], queenSide |-> r[2]],
                          black |-> [kingSide |-> r[3], queenSide |-> r[4]]],
      !.enPassantTarget = ep, !.halfmoveClock = n[1],
      !.fullmoveNumber = n[2], !.repetitionMap = <<>>] :
     b \in KeyBoards, c \in {"white", "black"}, r \in [1..4 -> BOOLEAN],
     ep \in KeyTargets, n \in KeyClocks}

\* The board with the pieces of `men`, pairs of a square's name and a piece.
BoardOfMen(men) ==
  [i \in 0..63 |->
     IF \E k \in 1..Len(men) : algebraicToIndex(SquareNamed(men[k][1])) = i
     THEN men[CHOOSE k \in 1..Len(men) :
                algebraicToIndex(SquareNamed(men[k][1])) = i][2]
     ELSE null]

\* White has eighteen captures: of the pawns on b3, c3, d3, d4 and e6 by
\* the queen on c4, on f3, g3, f4 and e6 by the queen on g4, on b3 and d3
\* by the bishop on c2, on d3 and f3 by the bishop on e2 and by the knight
\* on e1, on b3 by the knight on a1 and by the rook on a3, on e6 by the
\* rook on e8.
ManyCaptures ==
  BoardOfMen(<<<<"b1", "wK">>, <<"c4", "wQ">>, <<"g4", "wQ">>,
               <<"e1", "wN">>, <<"a1", "wN">>, <<"e8", "wR">>,
               <<"a3", "wR">>, <<"c2", "wB">>, <<"e2", "wB">>,
               <<"h6", "bK">>, <<"b3", "bP">>, <<"c3", "bP">>,
               <<"d3", "bP">>, <<"f3", "bP">>, <<"g3", "bP">>,
               <<"d4", "bP">>, <<"f4", "bP">>, <<"e6", "bP">>>>)

\* 1. e4 d5
CentreCounter ==
  BoardWithMoved(BoardWithMoved(createStartingBoard, <<"e", "2">>,
                                <<"e", "4">>), <<"d", "7">>, <<"d", "5">>)

\* 1. e4 e5 2. Nf3 Nc6 3. d4
ScotchGame ==
  BoardWithMoved(BoardWithMoved(BoardWithMoved(BoardWithMoved(
    BoardWithMoved(createStartingBoard, <<"e", "2">>, <<"e", "4">>),
    <<"e", "7">>, <<"e", "5">>), <<"g", "1">>, <<"f", "3">>),
    <<"b", "8">>, <<"c", "6">>), <<"d", "2">>, <<"d", "4">>)

PositionOf(b, color, rights, target) ==
  [createStarting("white") EXCEPT !.board = b, !.activeColor = color,
                                  !.castlingRights = rights,
                                  !.enPassantTarget = target,
                                  !.repetitionMap = <<>>]

\* The boards squareAttackedBy is called on: the starting board, two
\* openings, the board of many captures, and the kings with a white bishop,
\* a black queen and a white rook.
AttackBoards ==
  {createStartingBoard, CentreCounter, ScotchGame, ManyCaptures,
   MaterialBoard(<<"wB", "bQ", "wR">>)}

AttackInputs ==
  {PositionOf(b, "white", NoRights, NoSquare) : b \in AttackBoards}

PositionBecomes(c) ==
  /\ lastCall' = c
  /\ UNCHANGED <<stateVars, played, seen, free, ended, legalMoves, search,
                 controller>>

PositionInit ==
  /\ \E gs \in MaterialInputs \cup KeyInputs \cup AttackInputs : Is(gs)
  /\ played = <<>>
  /\ seen = <<Position(GS)>>
  /\ free = 0
  /\ ended = {}
  /\ legalMoves = <<>>
  /\ search = NoSearch
  /\ controller = NoController
  /\ lastCall = NoCall

\* gameState.isInsufficientMaterial().
IsInsufficientMaterial ==
  /\ lastCall = NoCall
  /\ PositionBecomes([fn |-> "isInsufficientMaterial",
                      value |-> isInsufficientMaterial(GS)])

\* gameState.buildRepetitionKey(), and other.buildRepetitionKey() for a
\* second state.
BuildRepetitionKey ==
  /\ lastCall = NoCall
  /\ GS \in KeyInputs
  /\ \E other \in KeyInputs :
       PositionBecomes([fn |-> "buildRepetitionKey", other |-> other,
                        key |-> buildRepetitionKey(GS),
                        otherKey |-> buildRepetitionKey(other)])

\* squareAttackedBy(gameState, square, color).
SquareAttackedBy ==
  /\ lastCall = NoCall
  /\ GS \in AttackInputs
  /\ \E square \in Squares, color \in {"white", "black"} :
       PositionBecomes([fn |-> "squareAttackedBy", square |-> square,
                        color |-> color,
                        value |-> squareAttackedBy(asRulesState(GS), square,
                                                   color)])

PositionNext ==
  IsInsufficientMaterial \/ BuildRepetitionKey \/ SquareAttackedBy

PositionSpec == PositionInit /\ [][PositionNext]_vars

(***************************************************************************)
(* AI.quiescence called on positions of its own, one step of the call on   *)
(* top of the stack at a time: lastCall holds the arguments and the run.   *)
(***************************************************************************)
QuiescencePositions ==
  {PositionOf(ManyCaptures, "white", NoRights, NoSquare),
   PositionOf(CentreCounter, "white",
              createStarting("white").castlingRights, <<"d", "6">>),
   PositionOf(ScotchGame, "black",
              createStarting("white").castlingRights, <<"d", "3">>),
   createStarting("white")}

\* The windows quiescence is called with, and the budgets.
QuiescenceWindows == {<<0 - Infinity, Infinity>>, <<0 - 50, 50>>}

QuiescenceBudgets == {0, 1, 7}

\* The run of this.quiescence(state, alpha, beta, rootColor, standPat, ...)
\* at its entry.
QuiescenceRun(gs, window, rootColor, standPat, expiry) ==
  [frames |-> <<Call("quiescence", SearchState(AsBaseState(gs), gs), 0,
                     window[1], window[2], FALSE, standPat)>>,
   clock |-> 0, gameState |-> gs,
   ctx |-> [rootColor |-> rootColor, level |-> 4, expiry |-> expiry],
   halted |-> FALSE, result |-> Returned(0, FALSE), nulls |-> {}]

QuiescenceBecomes(c) ==
  /\ lastCall' = c
  /\ Becomes(c.run.gameState)
  /\ UNCHANGED <<played, seen, free, ended, legalMoves, search, controller>>

QuiescenceInit ==
  /\ \E gs \in QuiescencePositions : Is(gs)
  /\ played = <<>>
  /\ seen = <<Position(GS)>>
  /\ free = 0
  /\ ended = {}
  /\ legalMoves = <<>>
  /\ search = NoSearch
  /\ controller = NoController
  /\ \E window \in QuiescenceWindows, rootColor \in {"white", "black"},
        expiry \in QuiescenceBudgets :
       \E standPat \in {evaluate(asRulesState(GS), rootColor)} :
         lastCall = [fn |-> "quiescence", standPat |-> standPat,
                     run |-> QuiescenceRun(GS, window, rootColor, standPat,
                                           expiry)]

\* A step of the call of quiescence on top of the stack: from its entry to
\* the generation of its moves, to the head of its loop, to the call on the
\* position after a move, or to its return to its caller.
Quiescence ==
  /\ lastCall.fn = "quiescence"
  /\ ~lastCall.run.halted
  /\ QuiescenceBecomes([lastCall EXCEPT
                          !.run = SearchStep(@, Top(lastCall.run))])

QuiescenceNext == Quiescence

QuiescenceSpec == QuiescenceInit /\ [][QuiescenceNext]_vars

(***************************************************************************)
(* GameState.serialize, Game.getGameState and the constructor, with the    *)
(* arrays and objects of a GameState held by reference: `lastCall.heap` is *)
(* the sequence of the structures made so far, and the fields board,       *)
(* castlingRights, moveHistory, result, lastMove and repetitionMap of an   *)
(* object hold the index of a structure in it (a field that is null refers *)
(* to a structure that is null).  The variables of the GameState are what  *)
(* a reader of the original GameState sees.                                *)
(***************************************************************************)
\* Writes made through the serialized data and the GameState constructed
\* from it.
MaxChanges == 1

RefFields ==
  {"board", "castlingRights", "moveHistory", "result", "lastMove",
   "repetitionMap"}

\* What a reader of the object sees: each reference followed.
View(heap, obj) ==
  [f \in DOMAIN obj |-> IF f \in RefFields THEN heap[obj[f]] ELSE obj[f]]

\* A GameState made as createStarting and applyMove make gs: each of its
\* structures is its own.
Placed(heap, gs) ==
  [heap |-> heap \o <<gs.board, gs.castlingRights, gs.moveHistory, gs.result,
                      gs.lastMove, gs.repetitionMap>>,
   obj |-> [gs EXCEPT !.board = Len(heap) + 1,
                      !.castlingRights = Len(heap) + 2,
                      !.moveHistory = Len(heap) + 3,
                      !.result = Len(heap) + 4,
                      !.lastMove = Len(heap) + 5,
                      !.repetitionMap = Len(heap) + 6]]

\* obj.serialize(): every field of the object returned is the field of
\* obj itself, but repetitionMap, a new array of the entries.
SerializedIn(heap, obj) ==
  [heap |-> Append(heap, serialize(View(heap, obj)).repetitionMap),
   obj |-> [f \in DOMAIN serialize(View(heap, obj)) |->
              IF f = "repetitionMap" THEN Len(heap) + 1 ELSE obj[f]]]

\* new GameState(data): data.board is an array and is taken as it is;
\* castlingRights, moveHistory, result and lastMove are data's when they
\* are not null; repetitionMap is a new Map filled from data's entries.
ConstructedIn(heap, data) ==
  [heap |-> Append(heap, GameState(View(heap, data)).repetitionMap),
   obj |-> [f \in DOMAIN GameState(View(heap, data)) |->
              IF f = "repetitionMap" THEN Len(heap) + 1
              ELSE IF f \in RefFields THEN data[f]
              ELSE GameState(View(heap, data))[f]]]

\* The fields and structures of obj after obj.applyMove(move) has made the
\* GameState `after` of it: board, castlingRights, moveHistory and
\* repetitionMap are written in place, lastMove and result are assigned
\* new objects.
WrittenInPlace(heap, obj, after) ==
  [heap |-> [heap EXCEPT ![obj.board] = after.board,
                         ![obj.castlingRights] = after.castlingRights,
                         ![obj.moveHistory] = after.moveHistory,
                         ![obj.repetitionMap] = after.repetitionMap]
              \o <<after.lastMove, after.result>>,
   obj |-> [f \in DOMAIN obj |->
              IF f = "lastMove" THEN Len(heap) + 1
              ELSE IF f = "result"
              THEN (IF after.result = heap[obj.result] THEN obj.result
                    ELSE Len(heap) + 2)
              ELSE IF f \in RefFields THEN obj[f]
              ELSE after[f]]]

\* obj.applyMove(move).
AppliedInPlace(heap, obj, move) ==
  IF isGameOver(View(heap, obj)) THEN [heap |-> heap, obj |-> obj]
  ELSE WrittenInPlace(heap, obj, applyMove(View(heap, obj), move))

\* The position gs after the moves named, each a legal move of its
\* position.
PlayedOn(gs, legal, name) ==
  applyMove(gs, legal[CHOOSE k \in DOMAIN legal : MoveName(legal[k]) = name])

RECURSIVE AfterLine(_, _, _)
AfterLine(gs, l, n) ==
  IF n = 0 THEN gs
  ELSE \* the position after n - 1 moves is computed once
       LET Go(before) ==
             PlayedOn(before, generateLegalMoves(asRulesState(before)),
                      l[n].name)
       IN Go(AfterLine(gs, l, n - 1))

\* The GameStates serialized: the starting position for either player, the
\* Italian game before castling, the fool's mate before the mating move,
\* and the mate.
OwnershipInputs ==
  {createStarting("white"), createStarting("black"),
   AfterLine(createStarting("white"), Italian, Len(Italian)),
   AfterLine(createStarting("white"), FoolsMate, Len(FoolsMate) - 1),
   AfterLine(createStarting("white"), FoolsMate, Len(FoolsMate))}

\* No object.
NoObject == [none |-> TRUE]

\* The structures and objects become those of c, and the variables of the
\* GameState what the original shows.
OwnershipBecomes(c) ==
  /\ lastCall' = c
  /\ Becomes(View(c.heap, c.original))
  /\ UNCHANGED <<played, seen, free, ended, legalMoves, search, controller>>

OwnershipInit ==
  /\ \E gs \in OwnershipInputs :
       /\ Is(gs)
       /\ lastCall = [fn |-> "createStarting",
                      heap |-> Placed(<<>>, gs).heap,
                      original |-> Placed(<<>>, gs).obj,
                      data |-> NoObject, copy |-> NoObject, changes |-> 0]
  /\ played = <<>>
  /\ seen = <<Position(GS)>>
  /\ free = 0
  /\ ended = {}
  /\ legalMoves = <<>>
  /\ search = NoSearch
  /\ controller = NoController

\* data = gameState.serialize(), or game.getGameState(), which returns
\* this.state.serialize().
Serialize ==
  /\ lastCall.data = NoObject
  /\ \E fn \in {"serialize", "getGameState"} :
       \E made \in {SerializedIn(lastCall.heap, lastCall.original)} :
         OwnershipBecomes([lastCall EXCEPT !.fn = fn, !.heap = made.heap,
                                           !.data = made.obj])

\* copy = new GameState(data).
Construct ==
  /\ lastCall.data # NoObject
  /\ lastCall.copy = NoObject
  /\ \E made \in {ConstructedIn(lastCall.heap, lastCall.data)} :
       OwnershipBecomes([lastCall EXCEPT !.fn = "GameState",
                                         !.heap = made.heap,
                                         !.copy = made.obj])

\* copy.applyMove(move) for a legal move of the copy's position.
ApplyMoveToCopy ==
  /\ lastCall.copy # NoObject
  /\ lastCall.changes < MaxChanges
  /\ \E legal \in {generateLegalMoves(
                     asRulesState(View(lastCall.heap, lastCall.copy)))} :
       \E k \in DOMAIN legal :
         \E made \in {AppliedInPlace(lastCall.heap, lastCall.copy,
                                     legal[k])} :
           OwnershipBecomes([lastCall EXCEPT !.fn = "applyMove",
                                             !.heap = made.heap,
                                             !.copy = made.obj,
                                             !.changes = @ + 1])

\* The writes a caller makes in the data returned.
ChangesOf(heap, data) ==
  {[heap EXCEPT ![data.board] = [@ EXCEPT ![i] = piece]] :
     i \in {0, 12, 28}, piece \in {null, "bQ"}}
  \cup {[heap EXCEPT ![data.castlingRights] =
                        [@ EXCEPT ![color][side] = FALSE]] :
          color \in {"white", "black"}, side \in {"kingSide", "queenSide"}}
  \cup {[heap EXCEPT ![data.moveHistory] = Append(@, <<"e", "4">>)]}

\* data.board[i] = piece, data.castlingRights[color][side] = false, or
\* data.moveHistory.push(entry).
ChangeReturned ==
  /\ lastCall.data # NoObject
  /\ lastCall.changes < MaxChanges
  /\ \E heap \in ChangesOf(lastCall.heap, lastCall.data) :
       OwnershipBecomes([lastCall EXCEPT !.fn = "change", !.heap = heap,
                                         !.changes = @ + 1])

OwnershipNext ==
  \/ Serialize \/ Construct \/ ApplyMoveToCopy \/ ChangeReturned

OwnershipSpec == OwnershipInit /\ [][OwnershipNext]_vars

(***************************************************************************)
(* Properties of the engine.                                               *)
(***************************************************************************)
LastPlayed == played[Len(played)]

\* Whether the game has followed exactly the line l.
Followed(l) ==
  /\ Len(played) = Len(l)
  /\ \A i \in 1..Len(l) : played[i].name = l[i].name

\* The number of times the game has been in its present position, the
\* standard position counting from the start.
Occurrences ==
  Cardinality({i \in 1..Len(seen) : seen[i] = seen[Len(seen)]})

\* Whether the i-th move played was neither a pawn move nor a capture.
Quiet(i) == CharAt(played[i].piece, 1) # "P" /\ played[i].taken = null

\* The number of moves played since the last pawn move or capture.
QuietRun ==
  Len(played)
    - (IF \A i \in 1..Len(played) : Quiet(i) THEN 0
       ELSE CHOOSE i \in 1..Len(played) :
              ~Quiet(i) /\ \A j \in (i + 1)..Len(played) : Quiet(j))

\* Whether the king of `color` stands on board b, on index i, unattacked.
SafeAt(b, i, color) ==
  i <= 63 /\ ~AttackedAt(b, i % 8, i \div 8, oppositeColor(color))

KingSafeOn(b, color) ==
  SafeAt(b, FirstIndexOf(b, IF color = "white" THEN "wK" ELSE "bK", 0), color)

\* The board applyMove makes of the current one with the move m.
BoardAfter(m) ==
  MovePieces(board, m, board[algebraicToIndex(m.from)], activeColor)

\* C1: in every position reached, each move of generateLegalMoves gives a
\* board on which the mover's own king is not attacked by the opponent.
LegalMovesKeepKingSafe ==
  \A m \in Range(LegalMoves) : KingSafeOn(BoardAfter(m), activeColor)

\* The side to move is in check and has a legal move, and the filter has
\* rejected a pseudo-legal one.
FilterRejectsWhenInCheck ==
  /\ isInCheck(asRulesState(GS))
  /\ Len(LegalMoves) > 0
  /\ Len(LegalMoves) < Len(generatePseudoLegalMoves(asRulesState(GS)))

\* C2: every state reached by applying legal moves has exactly one white
\* king and exactly one black king on the board.
OneKingEach ==
  /\ Cardinality({i \in 0..63 : board[i] = "wK"}) = 1
  /\ Cardinality({i \in 0..63 : board[i] = "bK"}) = 1

\* A capture has just been made next to a king: 3. Bxh8 in RookTaken.
CaptureBesideKing ==
  /\ played # <<>>
  /\ LastPlayed.taken = "bR"
  /\ LastPlayed.to = <<"h", "8">>
  /\ OneKingEach

\* C3: after every applied move, a side to move that has no legal move is
\* checkmated when in check, the side that just moved being the winner,
\* and stalemated, with no winner, when not in check.
MateAndStalemateReported ==
  played # <<>> /\ Len(LegalMoves) = 0 =>
    IF isInCheck(asRulesState(GS))
    THEN /\ result.outcome = "checkmate"
         /\ result.winner = getColorOf(LastPlayed.piece)
    ELSE /\ result.outcome = "stalemate"
         /\ result.winner = null

\* The fool's mate has been played and Black has won by checkmate.
FoolsMateWonByBlack ==
  /\ Followed(FoolsMate)
  /\ Len(LegalMoves) = 0
  /\ result.outcome = "checkmate"
  /\ result.winner = "black"

\* Loyd's game has been played and ended in stalemate.
LoydGameStalemate ==
  /\ Followed(LoydStalemate)
  /\ Len(LegalMoves) = 0
  /\ result.outcome = "stalemate"

\* C4: once the outcome is checkmate, stalemate or draw, no call of
\* applyMove, handleSelection, Game.handlePlayerMove or Game.applyAIMove
\* changes board, activeColor, castlingRights, enPassantTarget,
\* halfmoveClock, fullmoveNumber, moveHistory, repetitionMap, lastMove or
\* result.
ImmutableOnceOver ==
  [][isGameOver(GS) =>
       UNCHANGED <<board, activeColor, castlingRights, enPassantTarget,
                   halfmoveClock, fullmoveNumber, moveHistory, repetitionMap,
                   lastMove, result>>]_vars

\* Each of the four operations has been called on a game that is over.
AllCalledOnceOver ==
  /\ isGameOver(GS)
  /\ ended = {"applyMove", "handleSelection", "handlePlayerMove",
              "applyAIMove"}

\* C5: when the applied moves bring the game to the same board, side to
\* move, castling rights and en passant target for the third time, the
\* result is a draw, by threefold repetition unless the move was also the
\* hundredth without a pawn move or capture, by the 50-move rule then.
ThirdOccurrenceIsDraw ==
  Occurrences >= 3 =>
    /\ result.outcome = "draw"
    /\ result.reason = IF QuietRun >= 100 THEN "50-move rule"
                       ELSE "Threefold repetition"

\* The knights have gone out and home twice and the game is drawn by
\* repetition.
KnightsDanceDrawn ==
  /\ Followed(KnightsDance)
  /\ Occurrences = 3
  /\ result = Draw("Threefold repetition")

\* C5 as stated: the third occurrence of a position always gives the reason
\* "Threefold repetition".
ThirdOccurrenceIsThreefold ==
  Occurrences >= 3 => result = Draw("Threefold repetition")

\* C6: after 100 consecutive applied halfmoves without pawn move or capture
\* the result is a draw, unless the hundredth leaves the side to move
\* without a legal move: the game is then lost or stalemate.
HundredQuietMovesEndTheGame ==
  QuietRun >= 100 =>
    IF Len(LegalMoves) = 0
    THEN result.outcome \in {"checkmate", "stalemate"}
    ELSE result.outcome = "draw"

\* A hundred quiet moves have been played, the last to a new position,
\* and the game is drawn by the 50-move rule.
HundredthAwayDrawn ==
  /\ Followed(HundredthAway)
  /\ QuietRun = 100
  /\ Occurrences < 3
  /\ result = Draw("50-move rule")

\* C6 as stated: 100 quiet halfmoves always give a draw.
HundredQuietMovesDraw == QuietRun >= 100 => result.outcome = "draw"

\* C7: after every applied move the result is checkmate or stalemate when
\* there is no legal move; otherwise a draw by the 50-move rule, else by
\* threefold repetition, else by insufficient material, whichever holds
\* first in this order; and ongoing only when none of them holds.
ResultByPriority ==
  played # <<>> =>
    result =
      IF Len(LegalMoves) = 0
      THEN IF isInCheck(asRulesState(GS))
           THEN Checkmate(getColorOf(LastPlayed.piece)) ELSE Stalemate
      ELSE IF QuietRun >= 100 THEN Draw("50-move rule")
      ELSE IF Occurrences >= 3 THEN Draw("Threefold repetition")
      ELSE IF isInsufficientMaterial(GS) THEN Draw("Insufficient material")
      ELSE Ongoing

\* The hundredth quiet move repeats a position for the third time: two
\* draw conditions hold at once and the 50-move rule is the one reported.
FiftyMoveRuleBeforeRepetition ==
  /\ Followed(HundredthHome)
  /\ QuietRun >= 100 /\ Occurrences >= 3
  /\ Len(LegalMoves) > 0
  /\ result = Draw("50-move rule")

\* The king, the rook, the corner and the squares of a castling of `color`
\* on `side`: the squares between king and rook, and the squares the king
\* stands on, crosses and lands on.
KingOf(color) == IF color = "white" THEN "wK" ELSE "bK"

RookOf(color) == IF color = "white" THEN "wR" ELSE "bR"

BackRank(color) == IF color = "white" THEN 0 ELSE 7

Corner(color, side) ==
  indexToAlgebraic(BackRank(color) * 8 + (IF side = "kingSide" THEN 7 ELSE 0))

Between(color, side) ==
  {BackRank(color) * 8 + f :
     f \in (IF side = "kingSide" THEN {5, 6} ELSE {1, 2, 3})}

KingPath(color, side) ==
  {BackRank(color) * 8 + f :
     f \in (IF side = "kingSide" THEN {4, 5, 6} ELSE {4, 3, 2})}

Sides == {"kingSide", "queenSide"}

\* Whether the move e of the game was made by the king of `color`, or took
\* the rook of `color` away from its corner on `side`, or took it there.
Forfeits(e, color, side) ==
  \/ e.piece = KingOf(color)
  \/ e.piece = RookOf(color) /\ e.from = Corner(color, side)
  \/ e.taken = RookOf(color) /\ e.to = Corner(color, side)

\* Whether the legal moves of the side to move include castling on `side`.
CastleIsLegal(side) ==
  \E m \in Range(LegalMoves) :
    IF side = "kingSide" THEN m.isCastleKingSide ELSE m.isCastleQueenSide

\* The conditions of castling for the side to move, read from the game
\* played and the board.
MayCastle(side) ==
  /\ \A i \in 1..Len(played) : ~Forfeits(played[i], activeColor, side)
  /\ \A i \in Between(activeColor, side) : board[i] = null
  /\ \A i \in KingPath(activeColor, side) :
       ~AttackedAt(board, i % 8, i \div 8, oppositeColor(activeColor))

\* C8: castling on a side is among the legal moves of the side to move if
\* and only if its king and the rook of that side have never moved, the
\* rook has not been captured, the squares between them are empty, and the
\* squares the king stands on, crosses and lands on are not attacked.
CastlingIffConditions ==
  \A side \in Sides : CastleIsLegal(side) <=> MayCastle(side)

\* White has the right to castle king-side, f1 and g1 are empty, neither e1
\* nor g1 is attacked, but f1 is: castling is not among the legal moves.
NoCastlingAcrossAttackedSquare ==
  /\ activeColor = "white"
  /\ castlingRights.white.kingSide
  /\ board[5] = null /\ board[6] = null
  /\ ~AttackedAt(board, 4, 0, "black")
  /\ AttackedAt(board, 5, 0, "black")
  /\ ~AttackedAt(board, 6, 0, "black")
  /\ ~CastleIsLegal("kingSide")
  /\ Len(LegalMoves) > 0

\* The castling rights before the last move played.
RightsBefore == seen[Len(seen) - 1][3]

\* C9: a castling right that was lost before a move is lost after it, and
\* the rights of a colour on a side are lost after the move in which its
\* king moves, or its rook leaves the corner of that side or is captured
\* there.
RightsLostForGood ==
  played # <<>> =>
    \A color \in {"white", "black"}, side \in Sides :
      (~RightsBefore[color][side] \/ Forfeits(LastPlayed, color, side))
        => ~castlingRights[color][side]

\* White's king's rook has come back to h1, with the king on e1: the right
\* to castle king-side stays lost, the right to castle queen-side is kept.
RookBackHomeRightStaysLost ==
  /\ played # <<>>
  /\ LastPlayed.piece = "wR" /\ LastPlayed.to = <<"h", "1">>
  /\ board[4] = "wK" /\ board[7] = "wR"
  /\ ~RightsBefore.white.kingSide
  /\ ~castlingRights.white.kingSide
  /\ castlingRights.white.queenSide

\* Whether the move e of the game is a pawn's push of two squares, and
\* whether it is a pawn's capture onto an empty square.
DoublePush(e) ==
  /\ CharAt(e.piece, 1) = "P"
  /\ Abs(NumberOfDigit(e.to[2]) - NumberOfDigit(e.from[2])) = 2

CaptureInPassing(e) ==
  CharAt(e.piece, 1) = "P" /\ e.from[1] # e.to[1] /\ e.taken = null

\* The square a pawn that pushed two squares with the move e went over.
PassedOver(e) ==
  <<e.to[1],
    IF getColorOf(e.piece) = "white" THEN "3" ELSE "6">>

BoardBefore == seen[Len(seen) - 1][1]

\* C10: an en passant capture is among the legal moves only when the last
\* move played was a two-square push of an opposing pawn, onto the square
\* that pawn went over; once applied, the board differs from the one
\* before by the capturing pawn's move and the removal of the pushed pawn,
\* and by nothing else; and enPassantTarget is null after every applied
\* move that is not a two-square pawn push.
EnPassantOnlyAtOnce ==
  /\ \A m \in Range(LegalMoves) :
       m.isEnPassant =>
         /\ played # <<>>
         /\ DoublePush(LastPlayed)
         /\ getColorOf(LastPlayed.piece) = oppositeColor(activeColor)
         /\ m.to = PassedOver(LastPlayed)
         /\ m.captured = LastPlayed.piece
  /\ played # <<>> /\ CaptureInPassing(LastPlayed) =>
       /\ Len(played) > 1
       /\ DoublePush(played[Len(played) - 1])
       /\ BoardBefore[algebraicToIndex(played[Len(played) - 1].to)]
            = played[Len(played) - 1].piece
       /\ board =
            [BoardBefore EXCEPT
               ![algebraicToIndex(LastPlayed.from)] = null,
               ![algebraicToIndex(LastPlayed.to)] = LastPlayed.piece,
               ![algebraicToIndex(played[Len(played) - 1].to)] = null]
  /\ played # <<>> /\ ~DoublePush(LastPlayed) => enPassantTarget = NoSquare

\* A pawn has just been captured in passing.
CapturedInPassing ==
  /\ played # <<>>
  /\ CaptureInPassing(LastPlayed)
  /\ enPassantTarget = NoSquare
  /\ Cardinality({i \in 0..63 : board[i] # BoardBefore[i]}) = 3

\* The game of captures has been played down to king against king and
\* knight and is drawn for want of material.
DrawnForWantOfMaterial ==
  /\ Followed(KingAndKnight)
  /\ Len(LegalMoves) > 0
  /\ QuietRun = 0 /\ Occurrences = 1
  /\ result = Draw("Insufficient material")

\* The requests Game.handlePlayerMove is called with in the present state.
PlayerRequests == RequestsFor(MoveInputs(Choices, Choices.gameNames))

\* Whether the legal move m answers the request exactly: same origin and
\* destination and, when m is a promotion, the piece the request names.
ExactMatch(m, req) ==
  /\ m.from = req.from
  /\ m.to = req.to
  /\ m.promotion # null => m.promotion = req.promotion

\* The answer r to the request req is an acceptance only on an exact match,
\* and a failure that leaves the GameState as it is otherwise.
AnsweredOnExactMatch(req, r) ==
  IF \E m \in Range(LegalMoves) : ExactMatch(m, req)
  THEN r.success => r.error = null
  ELSE ~r.success /\ r.error # null /\ r.state = GS

\* C11: Game.handlePlayerMove accepts a request only if the legal moves
\* hold a move with the same from and to and, when that move is a
\* promotion, the same promotion piece as the request; in every other case
\* it returns a failure and the GameState is unchanged.
RequestsNeedExactMatch ==
  \A req \in PlayerRequests :
    AnsweredOnExactMatch(req, handlePlayerMove(GS, req))

\* The answer r is a rejection that leaves the GameState as it is.
Rejected(r) == ~r.success /\ r.error # null /\ r.state = GS

\* C12: when the game is over, or the side to move is not the player's
\* colour, Game.handlePlayerMove returns success false with an error and
\* changes nothing.
RejectedWhenOverOrOutOfTurn ==
  isGameOver(GS) \/ activeColor # playerColor =>
    \A req \in PlayerRequests : Rejected(handlePlayerMove(GS, req))

\* The game is on, it is not the player's turn, and a request for a legal
\* move of the side to move is refused as out of turn.
RefusedOutOfTurn ==
  /\ played # <<>>
  /\ ~isGameOver(GS)
  /\ activeColor # playerColor
  /\ \E req \in PlayerRequests :
       /\ \E m \in Range(LegalMoves) : RequestMatches(m, req)
       /\ handlePlayerMove(GS, req).error = "Not your turn"

\* The clicks handleSelection is called with in the present state.
Clicks == SquareInputs(Choices) \X {"white", "black"}

\* C13: a click handled while the game is over, or made for a side that is
\* not to move, changes nothing: position, history, result, selectedSquare
\* and cachedLegalTargets stay as they are and no move is applied.
ClickIgnoredWhenOverOrOutOfTurn ==
  \A click \in Clicks :
    isGameOver(GS) \/ click[2] # activeColor =>
      /\ handleSelection(GS, click[1], click[2]) = GS
      /\ click[2] = playerColor =>
           handlePlayerSquareSelection(GS, click[1]) = GS

\* The game is on, a piece is selected, and a click made for the side that
\* is not to move, on one of its own pieces, is ignored.
ClickedOutOfTurn ==
  /\ ~isGameOver(GS)
  /\ selectedSquare # NoSquare
  /\ cachedLegalTargets # <<>>
  /\ \E click \in Clicks :
       /\ click[2] # activeColor
       /\ getPiece(GS, click[1]) # null
       /\ getColorOf(getPiece(GS, click[1])) = click[2]
       /\ handleSelection(GS, click[1], click[2]) = GS

\* Selected: the game is on and a square is selected.
Selected == ~isGameOver(GS) /\ selectedSquare # NoSquare

\* The legal moves of the selected piece that end on the square.
MovesOfSelectedTo(square) ==
  {m \in Range(LegalMoves) : m.from = selectedSquare /\ m.to = square}

OwnPieceOn(square) ==
  /\ getPiece(GS, square) # null
  /\ getColorOf(getPiece(GS, square)) = activeColor

Idle(gs) == gs.selectedSquare = NoSquare /\ gs.cachedLegalTargets = <<>>

\* The GameState `after` is GS with one of the moves applied and no selection.
MovedAndIdle(after, moves) ==
  /\ Idle(after)
  /\ Len(after.moveHistory) = Len(moveHistory) + 1
  /\ \E m \in moves :
       after = [applyMove(GS, m) EXCEPT
                  !.selectedSquare = NoSquare, !.cachedLegalTargets = <<>>]

\* The GameState `after` is GS with the selection cleared and nothing else.
OnlyIdle(after) ==
  after = [GS EXCEPT !.selectedSquare = NoSquare, !.cachedLegalTargets = <<>>]

\* The GameState `after` is GS with the square selected and nothing else.
OnlyReselected(after, square) ==
  /\ after.selectedSquare = square
  /\ after = [GS EXCEPT !.selectedSquare = square,
                        !.cachedLegalTargets = after.cachedLegalTargets]
  /\ \A to \in Squares :
       (\E k \in DOMAIN after.cachedLegalTargets :
          after.cachedLegalTargets[k] = to)
         <=> \E m \in Range(LegalMoves) : m.from = square /\ m.to = to

\* C14 (as the code has it): in the Selected state a click of the side to
\* move on a legal destination of the selected piece applies that move and
\* returns to Idle; a click on a piece of the clicking side selects that
\* piece instead; a click on any other square returns to Idle and applies no
\* move.
SelectedClickMovesReselectsOrClears ==
  Selected =>
    \A square \in SquareInputs(Choices) :
      \E after \in {handleSelection(GS, square, activeColor)} :
        IF MovesOfSelectedTo(square) # {}
        THEN MovedAndIdle(after, MovesOfSelectedTo(square))
        ELSE IF OwnPieceOn(square)
        THEN OnlyReselected(after, square)
        ELSE OnlyIdle(after)

\* C14 (as stated): in the Selected state a click on a legal destination of
\* the selected piece applies that move and returns to Idle, and a click on
\* any square that is not one returns to Idle and applies no move.
SelectedClickMovesOrClears ==
  Selected =>
    \A square \in SquareInputs(Choices) :
      \E after \in {handleSelection(GS, square, activeColor)} :
        IF MovesOfSelectedTo(square) # {}
        THEN MovedAndIdle(after, MovesOfSelectedTo(square))
        ELSE OnlyIdle(after)

\* A piece is selected and the clicks at hand include one of its legal
\* destinations, another piece of the side to move, and a square that is
\* neither.
SelectedWithEveryKindOfClick ==
  /\ Selected
  /\ \E square \in SquareInputs(Choices) :
       /\ MovesOfSelectedTo(square) # {}
       /\ handleSelection(GS, square, activeColor).lastMove
            = [from |-> selectedSquare, to |-> square]
  /\ \E square \in SquareInputs(Choices) :
       OwnPieceOn(square) /\ square # selectedSquare
  /\ \E square \in SquareInputs(Choices) :
       MovesOfSelectedTo(square) = {} /\ ~OwnPieceOn(square)

(***************************************************************************)
(* AI.findBestMove.                                                        *)
(***************************************************************************)
\* C15: at every level and with every budget, a call of AI.findBestMove at a
\* position with legal moves goes on until it resolves and resolves to one
\* of them, and a call at a position without legal moves resolves to no
\* move.
FindsLegalMoveOrNone ==
  /\ search.status = "waiting" => Deepened(search, GS) # {}
  /\ search.status = "resolved" =>
        IF Len(legalMoves) = 0 THEN search.bestMove = NullMove
        ELSE search.bestMove \in Range(legalMoves)

\* A search whose budget ran out within its first iteration has resolved to
\* a legal move.
ResolvedWithinFirstIteration ==
  /\ search.status = "resolved"
  /\ search.level >= 4
  /\ search.currentDepth = 1
  /\ search.clock > search.expiry
  /\ search.expiry > 1
  /\ search.bestMove \in Range(legalMoves)

\* C16: no step of a search, from the call of AI.findBestMove to its
\* return, changes the board, the castling rights, the en passant target,
\* the clocks, the move history, the repetition map or the result of the
\* GameState it was called with.
SearchLeavesGameState ==
  [][search' # NoSearch =>
       UNCHANGED <<board, castlingRights, enPassantTarget, halfmoveClock,
                   fullmoveNumber, moveHistory, repetitionMap, result>>]_vars

\* A search of level 5 has run its four iterations and the GameState still
\* holds the position the game had reached.
SearchedToFullDepth ==
  /\ search.status = "resolved"
  /\ search.level = 5
  /\ search.currentDepth > search.maxDepth
  /\ search.bestMove \in Range(legalMoves)
  /\ Position(GS) = seen[Len(seen)]

\* C18: a search of level 2..5 that has completed an iteration resolves to
\* the move of the deepest iteration it completed; the move of an iteration
\* the budget cut short does not take its place.  search.deepest is the
\* move of the last iteration whose loop over the root moves the budget did
\* not end.
ReturnsDeepestCompleted ==
  (/\ search.status = "resolved"
   /\ search.level >= 2
   /\ search.deepest # NullMove) => search.bestMove = search.deepest

(***************************************************************************)
(* The controller.                                                         *)
(***************************************************************************)
\* C17: while a call of triggerAIMove awaits its search, before a step and
\* after it, the step applies no move to the Game the controller holds and
\* puts no new Game in its place.
AppliedSequentially ==
  [][(controller.calls # <<>> /\ controller'.calls # <<>>)
       => /\ UNCHANGED <<board, activeColor, moveHistory>>
          /\ controller'.game = controller.game]_vars

(***************************************************************************)
(* GameState.serialize and the constructor.                                *)
(***************************************************************************)
\* The entries of a repetition map: its keys, each with its count.
Counts(map) == {<<map[k][1], map[k][2]>> : k \in 1..Len(map)}

\* C19: the GameState constructed from the serialized GameState has the
\* same board, activeColor, castlingRights, enPassantTarget, halfmoveClock,
\* fullmoveNumber, moveHistory, lastMove and result, and a repetition map
\* with the same keys and the same counts.
SerializeRoundTrip ==
  \A made \in {GameState(serialize(GS))} :
    /\ made.board = board
    /\ made.activeColor = activeColor
    /\ made.castlingRights = castlingRights
    /\ made.enPassantTarget = enPassantTarget
    /\ made.halfmoveClock = halfmoveClock
    /\ made.fullmoveNumber = fullmoveNumber
    /\ made.moveHistory = moveHistory
    /\ made.lastMove = lastMove
    /\ made.result = result
    /\ Counts(made.repetitionMap) = Counts(repetitionMap)

\* A drawn game is serialized and constructed again: a position counted
\* three times among others counted once, a last move and a result.
RepeatedGameRoundTrip ==
  /\ result.outcome = "draw"
  /\ lastMove # NullLastMove
  /\ \E entry \in Counts(GameState(serialize(GS)).repetitionMap) :
       entry[2] = 3
  /\ \E entry \in Counts(GameState(serialize(GS)).repetitionMap) :
       entry[2] = 1

(***************************************************************************)
(* Move counts from the standard position.                                 *)
(***************************************************************************)
\* C20: from the standard initial position there are 20 sequences of one
\* legal move, 400 of two, 8,902 of three and 197,281 of four; the moves
\* are those of generateLegalMoves, and the position a move leads to is
\* the one applyMove leaves, at the root and after each first move.
PerftFromStart ==
  /\ played = <<>>
       => /\ Perft(asRulesState(GS), 1) = 20
          /\ Perft(asRulesState(GS), 2) = 400
          /\ Perft(asRulesState(GS), 3) = 8902
          /\ Perft(asRulesState(GS), 4) = 197281
  /\ Len(played) < PerftPlies
       => \A move \in Range(legalMoves) :
            asRulesState(applyMove(GS, move))
              = applyMoveRules(asRulesState(GS), move)

\* The standard position with its twenty moves, counted three moves deep.
CountedFromStart ==
  /\ played = <<>>
  /\ Position(GS) = seen[1]
  /\ Len(legalMoves) = 20
  /\ Perft(asRulesState(GS), 3) = 8902

(***************************************************************************)
(* Board.js: coordinates.                                                  *)
(***************************************************************************)
\* A two-character coordinate with its file in a..h and its rank in 1..8.
ValidCoordinate(sq) ==
  /\ sq.type = "string"
  /\ Len(sq.chars) = 2
  /\ sq.chars[1] \in {"a", "b", "c", "d", "e", "f", "g", "h"}
  /\ sq.chars[2] \in {"1", "2", "3", "4", "5", "6", "7", "8"}

\* C21: algebraicToIndex throws the invalid-square error for every argument
\* that is not a valid coordinate, and for a valid coordinate returns an
\* index in 0..63 that indexToAlgebraic maps back to the coordinate.
InvalidSquareOrIndex ==
  lastCall.step \in {"returned", "mapped"}
    => IF ValidCoordinate(lastCall.sq)
       THEN /\ ~lastCall.threw
            /\ ~lastCall.value.nan
            /\ lastCall.value.n \in 0..63
            /\ lastCall.step = "mapped" => lastCall.back = lastCall.sq.chars
       ELSE lastCall.threw

\* C22: every search the controller has started runs with a time budget
\* equal to the thinking time configured in the controls.
BudgetIsThinkingTime ==
  \A k \in DOMAIN controller.calls :
    controller.calls[k].timeout = getThinkingTime(controller.thinkingTime)

(***************************************************************************)
(* The search and its time budget.                                         *)
(***************************************************************************)
\* C23: when the budget ends inside minimax or quiescence the call returns
\* null and every caller passes the null on: no caller takes it for a
\* score, and no call returns a score in its place.
NullPropagated ==
  search.status # "none" => search.nulls \subseteq {"propagated"}

\* C24: a search of level 2..5 whose budget ran out before its first
\* iteration completed, before the iteration started or within the loop
\* over the root moves, resolves to the first of the legal moves
\* progressiveDeepeningSearch was given.
FallsBackToFirstMove ==
  (/\ search.status = "resolved"
   /\ search.level >= 2
   /\ Len(search.legalMoves) > 0
   /\ search.currentDepth = 1
   /\ search.deepest = NullMove) => search.bestMove = search.legalMoves[1]

(***************************************************************************)
(* Insufficient material and the repetition key.                           *)
(***************************************************************************)
\* The pieces of a colour on the board, kings apart.
MenOf(gs, color) ==
  {i \in 0..63 : /\ gs.board[i] # null
                 /\ getColorOf(gs.board[i]) = color
                 /\ CharAt(gs.board[i], 1) # "K"}

LoneMinor(gs, men) ==
  /\ Cardinality(men) = 1
  /\ \A i \in men : CharAt(gs.board[i], 1) \in {"B", "N"}

LoneBishop(gs, men) ==
  /\ Cardinality(men) = 1
  /\ \A i \in men : CharAt(gs.board[i], 1) = "B"

\* C25: isInsufficientMaterial returns true for bare kings, for a king and
\* a single bishop or knight against a bare king, and for a king and one
\* bishop against a king and one bishop, and false for every other material.
InsufficientExactly ==
  lastCall.fn = "isInsufficientMaterial" =>
    (lastCall.value <=>
       \/ MenOf(GS, "white") = {} /\ MenOf(GS, "black") = {}
       \/ LoneMinor(GS, MenOf(GS, "white")) /\ MenOf(GS, "black") = {}
       \/ MenOf(GS, "white") = {} /\ LoneMinor(GS, MenOf(GS, "black"))
       \/ /\ LoneBishop(GS, MenOf(GS, "white"))
          /\ LoneBishop(GS, MenOf(GS, "black")))

\* C26: two states get the same repetition key exactly when they agree on
\* the board, the side to move, the four castling rights and the en passant
\* target, whatever their halfmove clocks and fullmove numbers.
SameKeyIffSamePosition ==
  lastCall.fn = "buildRepetitionKey" =>
    (lastCall.key = lastCall.otherKey
       <=> Position(GS) = Position(lastCall.other))

\* Two states that differ in both counters and in nothing else have been
\* given the same key.
SameKeyAcrossClocks ==
  /\ lastCall.fn = "buildRepetitionKey"
  /\ lastCall.key = lastCall.otherKey
  /\ halfmoveClock # lastCall.other.halfmoveClock
  /\ fullmoveNumber # lastCall.other.fullmoveNumber
  /\ enPassantTarget # NoSquare
  /\ Position(GS) = Position(lastCall.other)

(***************************************************************************)
(* The counters of a game.  The k-th move applied is read from the boards  *)
(* before and after it, seen[k] and seen[k + 1]: the squares the mover     *)
(* left and the squares the mover came to.                                 *)
(***************************************************************************)
MenOn(b) == {i \in 0..63 : b[i] # null}

Vacated(k) ==
  {i \in MenOn(seen[k][1]) : /\ getColorOf(seen[k][1][i]) = seen[k][2]
                             /\ seen[k + 1][1][i] = null}

Arrived(k) ==
  {i \in MenOn(seen[k + 1][1]) :
     /\ getColorOf(seen[k + 1][1][i]) = seen[k][2]
     /\ seen[k + 1][1][i] # seen[k][1][i]}

\* The square the k-th move left and the square it came to: the king's when
\* the move is a castle.
FromOfMove(k) ==
  IF Cardinality(Vacated(k)) = 1 THEN CHOOSE i \in Vacated(k) : TRUE
  ELSE CHOOSE i \in Vacated(k) : CharAt(seen[k][1][i], 1) = "K"

ToOfMove(k) ==
  IF Cardinality(Arrived(k)) = 1 THEN CHOOSE i \in Arrived(k) : TRUE
  ELSE CHOOSE i \in Arrived(k) : CharAt(seen[k + 1][1][i], 1) = "K"

\* The k-th move was neither a pawn move nor a capture.
QuietMove(k) ==
  /\ CharAt(seen[k][1][FromOfMove(k)], 1) # "P"
  /\ Cardinality(MenOn(seen[k + 1][1])) = Cardinality(MenOn(seen[k][1]))

\* C27: after n moves applied to a game started from the standard position,
\* White is to move exactly when n is even, fullmoveNumber is 1 + n \div 2,
\* moveHistory has n entries, lastMove holds the squares of the n-th move,
\* and halfmoveClock is the number of the most recent consecutive moves that
\* were neither pawn moves nor captures.
CountersFollowMoves ==
  LET n == Len(seen) - 1
  IN /\ activeColor = "white" <=> n % 2 = 0
     /\ fullmoveNumber = 1 + (n \div 2)
     /\ Len(moveHistory) = n
     /\ n > 0 => /\ lastMove.from = indexToAlgebraic(FromOfMove(n))
                 /\ lastMove.to = indexToAlgebraic(ToOfMove(n))
     /\ halfmoveClock <= n
     /\ \A k \in (n - halfmoveClock + 1)..n : QuietMove(k)
     /\ halfmoveClock < n => ~QuietMove(n - halfmoveClock)

\* Two quiet moves have followed a capture.
QuietMovesAfterCapture ==
  /\ Len(seen) - 1 >= 6
  /\ halfmoveClock = 2
  /\ lastMove.to = indexToAlgebraic(ToOfMove(Len(seen) - 1))
  /\ fullmoveNumber = 1 + ((Len(seen) - 1) \div 2)
  /\ Cardinality(MenOn(seen[Len(seen) - 2][1]))
       < Cardinality(MenOn(seen[Len(seen) - 3][1]))

(***************************************************************************)
(* AI.quiescence.                                                          *)
(***************************************************************************)
\* The move takes a piece of the side not to move on the board of the
\* frame: the piece on its destination, or the pawn passed en passant.
TakesOn(b, color, m) ==
  \/ b[algebraicToIndex(m.to)] # null
       /\ getColorOf(b[algebraicToIndex(m.to)]) = oppositeColor(color)
  \/ /\ m.isEnPassant
     /\ CharAt(b[algebraicToIndex(m.from)], 1) = "P"
     /\ b[algebraicToIndex(m.to)] = null

\* What holds of the k-th call of quiescence on the stack: its value is
\* not below its stand-pat score, it has at most sixteen moves and each
\* takes a piece, the score it returns is not below its stand-pat score,
\* and its position has one piece fewer than its caller's.
QuiescenceFrameSound(run, k) ==
  LET f == run.frames[k]
      b == BoardOf(f.state, run.gameState)
  IN /\ f.fn = "quiescence"
     /\ f.locals.value >= f.baseScore
     /\ Len(f.moves) <= 16
     /\ \A j \in DOMAIN f.moves : TakesOn(b, f.state.activeColor, f.moves[j])
     /\ (f.at = "return" /\ ~f.out.timedOut) => f.out.score >= f.baseScore
     /\ k > 1 =>
          Cardinality(MenOn(b))
            = Cardinality(MenOn(BoardOf(run.frames[k - 1].state,
                                        run.gameState))) - 1

\* The move the call on top is about to make is a legal move.
QuiescenceMoveLegal(run) ==
  (run.frames # <<>> /\ Top(run).at = "apply") =>
    Top(run).moves[Top(run).i]
      \in Range(generateLegalMoves(SeenBy(Top(run).state, run.gameState)))

\* How far a call has come: the number of the move it is at, then the
\* place it has reached in its body.
PlaceOf(at) ==
  CASE at = "entry" -> 0 [] at = "moves" -> 1 [] at = "loop" -> 2
    [] at = "apply" -> 3 [] at = "call" -> 4 [] at = "return" -> 5

Further(f, g) == g.i > f.i \/ (g.i = f.i /\ PlaceOf(g.at) > PlaceOf(f.at))

\* The run has gone on from `run` to `next`: it has returned, or the
\* lowest call that differs has come further in its body.
Advanced(run, next) ==
  \/ next.halted /\ ~run.halted
  \/ \E k \in DOMAIN run.frames \cap DOMAIN next.frames :
       /\ \A j \in 1..(k - 1) : next.frames[j] = run.frames[j]
       /\ Further(run.frames[k], next.frames[k])

QuiescenceSound ==
  lastCall.fn = "quiescence" =>
    /\ \A k \in DOMAIN lastCall.run.frames :
         /\ QuiescenceFrameSound(lastCall.run, k)
         /\ lastCall.run.frames[k].i <= Len(lastCall.run.frames[k].moves) + 1
    /\ QuiescenceMoveLegal(lastCall.run)
    /\ (lastCall.run.halted /\ ~lastCall.run.result.timedOut)
         => lastCall.run.result.score >= lastCall.standPat
    /\ ~lastCall.run.halted
         => Advanced(lastCall.run,
                     SearchStep(lastCall.run, Top(lastCall.run)))

\* When a call returns a score to the call that made it, the caller's value
\* becomes the greater of its value and the score negated.
BestOfExplored ==
  (/\ lastCall.fn = "quiescence"
   /\ Len(lastCall.run.frames) >= 2
   /\ Top(lastCall.run).at = "return"
   /\ ~Top(lastCall.run).out.timedOut
   /\ lastCall' # lastCall)
    => Top(lastCall'.run).locals.value
         = Max(lastCall.run.frames[Len(lastCall.run.frames) - 1].locals.value,
               0 - Top(lastCall.run).out.score)

WithEnemyOn(gs, square, color) ==
  [board |-> [gs.board EXCEPT ![algebraicToIndex(square)] =
                IF color = "white" THEN "bQ" ELSE "wQ"],
   activeColor |-> color, castlingRights |-> NoRights,
   enPassantTarget |-> NoSquare]

\* Some piece of `color` could capture on the square under the movement
\* rules of the move generator, were an enemy piece on it.
CouldCaptureOn(gs, square, color) ==
  \E m \in Range(generatePseudoLegalMoves(WithEnemyOn(gs, square, color))) :
    m.to = square /\ m.captured # null

\* C29: squareAttackedBy(position, s, c) is true exactly when some piece of
\* colour c could capture on s under the movement rules of the move
\* generator, were s occupied by an enemy piece.
AttackedIffCouldCapture ==
  lastCall.fn = "squareAttackedBy" =>
    (lastCall.value <=> CouldCaptureOn(GS, lastCall.square, lastCall.color))

\* The square is not attacked although a bishop, rook or queen of the colour
\* stands on a line with it: a piece stands between.
BlockedSliderDoesNotAttack ==
  /\ lastCall.fn = "squareAttackedBy"
  /\ ~lastCall.value
  /\ \E i \in 0..63 :
       /\ board[i] # null
       /\ getColorOf(board[i]) = lastCall.color
       /\ CharAt(board[i], 1) \in {"B", "R", "Q"}
       /\ SliderAttacks([j \in 0..63 |-> null], CharAt(board[i], 1),
                        i % 8, i \div 8,
                        indexToFR(algebraicToIndex(lastCall.square)).file
                          - (i % 8),
                        indexToFR(algebraicToIndex(lastCall.square)).rank
                          - (i \div 8))

(***************************************************************************)
(* applyMoveSearch and GameState.applyMove.                                *)
(***************************************************************************)
\* The six fields agree between the SearchState and the GameState.
SameFields(applied, after) ==
  /\ BoardOf(applied.state, applied.gameState) = after.board
  /\ applied.state.activeColor = after.activeColor
  /\ RightsOf(applied.state, applied.gameState) = after.castlingRights
  /\ applied.state.enPassantTarget = after.enPassantTarget
  /\ applied.state.halfmoveClock = after.halfmoveClock
  /\ applied.state.fullmoveNumber = after.fullmoveNumber

\* applyMoveSearch on a SearchState made of gs gives what applyMove gives
\* on gs.
SearchAppliesAs(gs, move) ==
  SameFields(applyMoveSearch(SearchState(AsBaseState(gs), gs), gs, move,
                             gs.activeColor),
             applyMove(gs, move))

\* C30: in every position reached and for every legal move, applyMoveSearch
\* on a SearchState copy of the position gives the same board, side to
\* move, castling rights, en passant target, halfmove clock and fullmove
\* number as GameState.applyMove gives on the GameState.
SearchAppliesAsGame ==
  \A k \in DOMAIN legalMoves : SearchAppliesAs(GS, legalMoves[k])

\* C30, as the code has it: the two agree in every position reached where
\* the game is not over; once it is over applyMove applies nothing.
SearchAppliesAsOngoingGame ==
  ~isGameOver(GS) => \A k \in DOMAIN legalMoves :
                       SearchAppliesAs(GS, legalMoves[k])

\* The game is not over, a legal move takes a rook on its corner while its
\* side may still castle there, and applyMoveSearch clears the right as
\* applyMove does.
SearchTakesRookAsGame ==
  /\ ~isGameOver(GS)
  /\ \E k \in DOMAIN legalMoves :
       /\ legalMoves[k].to = <<"h", "8">>
       /\ legalMoves[k].captured = "bR"
       /\ castlingRights.black.kingSide
       /\ ~applyMove(GS, legalMoves[k]).castlingRights.black.kingSide
       /\ SearchAppliesAs(GS, legalMoves[k])

(***************************************************************************)
(* The check and mate suffix of a notation entry.                          *)
(***************************************************************************)
LastEntry == moveHistory[Len(moveHistory)]

\* The suffix of a notation entry: its last character when that is "#" or
\* "+", nothing otherwise.
SuffixOf(san) ==
  IF san[Len(san)] \in {"#", "+"} THEN san[Len(san)] ELSE ""

\* C31: the notation entry pushed for a move ends with "#" exactly when the
\* move made the result a checkmate, with "+" exactly when the new side to
\* move is in check and still has a legal move, and has no suffix otherwise.
SuffixTellsCheckAndMate ==
  moveHistory # <<>> =>
    SuffixOf(LastEntry) =
      (IF result.outcome = "checkmate" THEN "#"
       ELSE IF isInCheck(asRulesState(GS)) /\ Len(LegalMoves) > 0 THEN "+"
       ELSE "")

(***************************************************************************)
(* Castling rights and the pieces they need.                               *)
(***************************************************************************)
\* The home square of the king of `color`.
KingHome(color) == BackRank(color) * 8 + 4

\* Whether the move m castles on `side`.
CastlesOn(m, side) ==
  IF side = "kingSide" THEN m.isCastleKingSide ELSE m.isCastleQueenSide

\* C32: a castling right that is held implies that the king of its colour
\* stands on its home square and a rook of its colour on the corner of that
\* side, so that every castle move generated relocates a rook of the mover.
RightsHaveKingAndRook ==
  /\ \A color \in {"white", "black"}, side \in Sides :
       castlingRights[color][side] =>
         /\ board[KingHome(color)] = KingOf(color)
         /\ board[algebraicToIndex(Corner(color, side))] = RookOf(color)
  /\ \A k \in DOMAIN legalMoves, side \in Sides :
       CastlesOn(legalMoves[k], side) =>
         /\ castlingRights[activeColor][side]
         /\ board[algebraicToIndex(Corner(activeColor, side))]
              = RookOf(activeColor)

\* White's king's rook has left its corner and that right is lost, White's
\* right on the queen's side is held with king and rook at home, and Black
\* holds the right to castle king-side, which is among the legal moves.
CastleWithOneRightLost ==
  /\ activeColor = "black"
  /\ board[7] # "wR"
  /\ ~castlingRights.white.kingSide
  /\ castlingRights.white.queenSide
  /\ board[4] = "wK" /\ board[0] = "wR"
  /\ castlingRights.black.kingSide
  /\ \E k \in DOMAIN legalMoves : legalMoves[k].isCastleKingSide

(***************************************************************************)
(* The en passant target and the pawn it stands behind.                    *)
(***************************************************************************)
\* C33: when enPassantTarget is set, the target square is empty, it lies on
\* rank 3 when Black is to move and on rank 6 when White is to move, and a
\* pawn of the side that has just moved stands on the square beyond it, on
\* rank 4 or rank 5 of the same file.
EnPassantTargetBehindPawn ==
  enPassantTarget # NoSquare =>
    /\ board[algebraicToIndex(enPassantTarget)] = null
    /\ enPassantTarget[2] = (IF activeColor = "black" THEN "3" ELSE "6")
    /\ board[(IF activeColor = "black" THEN 3 ELSE 4) * 8
             + FilesIndexOf(enPassantTarget[1])]
         = (IF activeColor = "black" THEN "wP" ELSE "bP")

\* Black has just pushed a pawn two squares beside a white pawn: the target
\* is set on rank 6 and the capture in passing onto it is a legal move.
TargetSetAndCapturable ==
  /\ activeColor = "white"
  /\ enPassantTarget # NoSquare
  /\ \E k \in DOMAIN legalMoves :
       legalMoves[k].isEnPassant /\ legalMoves[k].to = enPassantTarget

(***************************************************************************)
(* Promotion.                                                              *)
(***************************************************************************)
\* Whether the move m takes a pawn onto the first or the eighth rank.
OntoLastRank(m) == CharAt(m.piece, 1) = "P" /\ m.to[2] \in {"1", "8"}

\* The legal moves from and to the squares of m that promote to `promo`.
PromotionsLike(m, promo) ==
  {k \in DOMAIN legalMoves :
     /\ legalMoves[k].from = m.from
     /\ legalMoves[k].to = m.to
     /\ legalMoves[k].promotion = promo}

\* C34: no pawn stands on rank 1 or rank 8; every legal move of a pawn onto
\* the last rank, push or capture, is a promotion move, there is exactly one
\* for each of Q, R, B and N, and applying it places the promoted piece of
\* the mover's colour on the destination.
PawnsPromoteOnLastRank ==
  /\ \A i \in (0..7) \cup (56..63) : board[i] \notin {"wP", "bP"}
  /\ \A k \in DOMAIN legalMoves :
       OntoLastRank(legalMoves[k]) =>
         /\ legalMoves[k].promotion \in Range(PromotionPieces)
         /\ \A promo \in Range(PromotionPieces) :
              Cardinality(PromotionsLike(legalMoves[k], promo)) = 1
         /\ ~isGameOver(GS) =>
              applyMove(GS, legalMoves[k])
                  .board[algebraicToIndex(legalMoves[k].to)]
                = CharAt(legalMoves[k].piece, 0) \o legalMoves[k].promotion

\* White's pawn has just been pushed to g8 and a white knight stands there.
PawnBecameKnight ==
  /\ played # <<>>
  /\ LastPlayed.piece = "wP"
  /\ LastPlayed.taken = null
  /\ LastPlayed.to = <<"g", "8">>
  /\ board[62] = "wN"
  /\ \A i \in 0..63 : board[i] = "wP" => i \div 8 \in 1..6

(***************************************************************************)
(* The repetition map and the game played.                                 *)
(***************************************************************************)
RECURSIVE SumOfCounts(_, _, _)
\* The sum of the counts of the entries lo..hi of a repetition map.
SumOfCounts(map, lo, hi) ==
  IF lo > hi THEN 0
  ELSE IF lo = hi THEN map[lo][2]
  ELSE SumOfCounts(map, lo, (lo + hi) \div 2)
         + SumOfCounts(map, (lo + hi) \div 2 + 1, hi)

\* C35: the counts in repetitionMap sum to moveHistory.length + 1, and the
\* count under the key of the current position is the number of times that
\* position has occurred in the game.
RepetitionMapCountsTheGame ==
  /\ SumOfCounts(repetitionMap, 1, Len(repetitionMap)) = Len(moveHistory) + 1
  /\ MapGet(repetitionMap, buildRepetitionKey(GS)) = Occurrences

\* The position has occurred twice in a game of at least four moves, and
\* other positions of the game once.
SecondOccurrenceCounted ==
  /\ Len(moveHistory) >= 4
  /\ Occurrences = 2
  /\ MapGet(repetitionMap, buildRepetitionKey(GS)) = 2
  /\ \E k \in 1..Len(repetitionMap) : repetitionMap[k][2] = 1

(***************************************************************************)
(* The selection and the position.                                         *)
(***************************************************************************)
\* The destinations of the legal moves from `square`.
LegalTargetsFrom(square) ==
  {legalMoves[k].to : k \in {j \in DOMAIN legalMoves :
                               legalMoves[j].from = square}}

\* Whenever selectedSquare is set, the game is ongoing, the selected square
\* holds a piece of the side to move, the side that selected it, and
\* cachedLegalTargets holds the legal destinations from the selected square
\* in the current position.
SelectionFitsPosition ==
  selectedSquare # NoSquare =>
    /\ ~isGameOver(GS)
    /\ getColorOf(getPiece(GS, selectedSquare)) = activeColor
    /\ Range(cachedLegalTargets) = LegalTargetsFrom(selectedSquare)

\* C36: after every call of handleSelection, Game.handlePlayerMove and
\* Game.applyAIMove, in any order, a selection that is set fits the
\* position: the game is ongoing, the selected square holds a piece of the
\* side to move, and cachedLegalTargets holds its legal destinations.
SelectionFitsAfterHandlers ==
  [][~SelectionFitsPosition'
       => ~(HandleSelection \/ HandlePlayerMove \/ ApplyAIMove)]_vars

(***************************************************************************)
(* Promotion by clicks.                                                    *)
(***************************************************************************)
\* C37: a move of a pawn onto the last rank applied by handleSelection
\* places a queen of the mover's colour: no click promotes to a rook, a
\* bishop or a knight.
ClicksPromoteToQueen ==
  [][(/\ Len(moveHistory') > Len(moveHistory)
      /\ board[algebraicToIndex(lastMove'.from)] \in {"wP", "bP"}
      /\ lastMove'.to[2] \in {"1", "8"}
      /\ HandleSelection)
       => board'[algebraicToIndex(lastMove'.to)]
            = (IF activeColor = "white" THEN "wQ" ELSE "bQ")]_vars

\* White's pawn on g7 is selected, four legal moves take it to h8, and a
\* click on h8 puts a white queen there.
QueenByClick ==
  /\ ~isGameOver(GS)
  /\ activeColor = "white"
  /\ selectedSquare = <<"g", "7">>
  /\ board[54] = "wP"
  /\ <<"h", "8">> \in Range(cachedLegalTargets)
  /\ Cardinality({k \in DOMAIN legalMoves :
                    /\ legalMoves[k].from = <<"g", "7">>
                    /\ legalMoves[k].to = <<"h", "8">>}) = 4
  /\ handleSelection(GS, <<"h", "8">>, "white").board[63] = "wQ"

(***************************************************************************)
(* The moves the controller applies for the computer.                      *)
(***************************************************************************)
\* Whether the step from the GameState before to the one after is the
\* application of a legal move of the position before.
LegalMoveApplied ==
  \E legal \in {generateLegalMoves(asRulesState(GS))} :
    \E k \in DOMAIN legal : Position(applyMove(GS, legal[k])) = Position(GS')

\* C38: every move that triggerAIMove hands to Game.applyAIMove is a legal
\* move of the side to move in the position the controller's Game is in
\* when it is applied, whatever the order of clicks, new-game requests,
\* animation frames and search completions.
AIMoveLegalWhenApplied ==
  [][(/\ board' # board
      /\ controller'.game = controller.game
      /\ (SearchTimer \/ AnimationFrame))
       => LegalMoveApplied]_vars

(***************************************************************************)
(* Ownership of the position and the history.                              *)
(***************************************************************************)
\* C39: a move applied to the GameState constructed from the object that
\* serialize() / Game.getGameState() returned, or a change made to the
\* board, the castlingRights or the moveHistory of that object, leaves the
\* original GameState unchanged.
OriginalOwnsItsStructures ==
  [][lastCall'.fn \in {"applyMove", "change"} => UNCHANGED stateVars]_vars

====
